---- MODULE Spec2Model ----
(***************************************************************************)
(* GT48: the 48-bit identifier generator (TimestampGenerator.generateRaw   *)
(* and the functions built on it) and the Base64URL / hexadecimal codec of *)
(* src/src/timestamp.js.                                                   *)
(*                                                                         *)
(* JavaScript numbers of up to 2^53 are exact integers, but they do not    *)
(* fit the model checker's machine integers, so a number n is held as two  *)
(* limbs, n = hi * 2^24 + lo with 0 <= lo < 2^24 (hi carries the sign).    *)
(* A string is the sequence of its UTF-16 code units.                      *)
(***************************************************************************)
EXTENDS Integers, Sequences, FiniteSets, TLC

----------------------------------------------------------------------------
(* Bounds of the model *)

\* sequence widths the generators are constructed with: 1..MaxSeqBits
MaxSeqBits == 2

\* clock readings near the epoch: -1..MaxTick
MaxTick == 3

\* generateRaw calls that return an identifier, per behaviour
MaxGenerated == 6

\* the same, when calls of the module functions are interleaved
MaxApiGenerated == 3

----------------------------------------------------------------------------
(* JavaScript numbers: two-limb integers *)

Limb == 2^24

Big(h, l) == [hi |-> h, lo |-> l]

Norm(h, l) == Big(h + (l \div Limb), l % Limb)

BigOfInt(n) == Norm(0, n)

Zero == Big(0, 0)

BigAdd(a, b) == Norm(a.hi + b.hi, a.lo + b.lo)

BigLT(a, b) == a.hi < b.hi \/ (a.hi = b.hi /\ a.lo < b.lo)

BigLE(a, b) == a = b \/ BigLT(a, b)

BigGT(a, b) == BigLT(b, a)

\* a * Math.pow(2, n), n in 0..24
BigMulPow2(a, n) ==
    LET cut == 2^(24 - n)
    IN  Big(a.hi * (2^n) + (a.lo \div cut), (a.lo % cut) * (2^n))

\* Math.floor(a / Math.pow(2, n)), n in 0..24
BigFloorDivPow2(a, n) ==
    LET cut == 2^(24 - n)
    IN  Big(a.hi \div (2^n), (a.hi % (2^n)) * cut + (a.lo \div (2^n)))

\* a % m for a >= 0 and m a power of two up to 2^24
BigModPow2(a, n) == a.lo % (2^n)

----------------------------------------------------------------------------
(* JavaScript values and call outcomes *)

Num(b) == [kind |-> "number", num |-> b, chars |-> <<>>]

Str(s) == [kind |-> "string", num |-> Zero, chars |-> s]

Bool(b) == [kind |-> "boolean", num |-> IF b THEN BigOfInt(1) ELSE Zero, chars |-> <<>>]

Undefined == [kind |-> "undefined", num |-> Zero, chars |-> <<>>]

Null == [kind |-> "null", num |-> Zero, chars |-> <<>>]

Returned(v) == [status |-> "returned", val |-> v, err |-> "none"]

Threw(e) == [status |-> "threw", val |-> Undefined, err |-> e]

NoOutcome == [status |-> "none", val |-> Undefined, err |-> "none"]

----------------------------------------------------------------------------
(* Constants and lookup tables *)

\* 0xFFFFFFFFFFFF
MAX_48_BIT == Big(Limb - 1, Limb - 1)

\* 'ABCDEFGHIJKLMNOPQRSTUVWXYZabcdefghijklmnopqrstuvwxyz0123456789-_'
\* as char codes; BASE64URL_CHARS[i + 1] is the source's BASE64URL_CHARS[i]
BASE64URL_CHARS ==
    [i \in 1..64 |->
        IF i <= 26 THEN 64 + i               \* 'A'..'Z' = 65..90
        ELSE IF i <= 52 THEN 96 + (i - 26)   \* 'a'..'z' = 97..122
        ELSE IF i <= 62 THEN 47 + (i - 52)   \* '0'..'9' = 48..57
        ELSE IF i = 63 THEN 45               \* '-'
        ELSE 95]                             \* '_'

\* the table built from the standard Base64 alphabet ('+' and '/' last)
ENCODE_TABLE_Base64 ==
    [i \in 0..63 |-> IF i = 62 THEN 43 ELSE IF i = 63 THEN 47 ELSE BASE64URL_CHARS[i + 1]]

ENCODE_TABLE == [i \in 0..63 |-> BASE64URL_CHARS[i + 1]]

\* the decode table of the standard Base64 alphabet
DECODE_TABLE_Base64 ==
    [c \in 0..127 |->
        IF \E i \in 0..63 : ENCODE_TABLE_Base64[i] = c
        THEN CHOOSE i \in 0..63 : ENCODE_TABLE_Base64[i] = c
        ELSE 255]

\* new Uint8Array(128), filled with 255, then the alphabet's indices
DECODE_TABLE ==
    [c \in 0..127 |->
        IF \E i \in 0..63 : BASE64URL_CHARS[i + 1] = c
        THEN CHOOSE i \in 0..63 : BASE64URL_CHARS[i + 1] = c
        ELSE 255]

----------------------------------------------------------------------------
(* Codec *)

\* a number as the 32-bit signed integer JavaScript's bitwise operators see
ToInt32(a) ==
    LET h == a.hi % 256
    IN  IF h >= 128 THEN Big(h - 256, a.lo) ELSE Big(h, a.lo)

\* the loop written with bitwise operators: value & 63, value >> 6
RECURSIVE EncodeLoop_Bitwise(_, _)
EncodeLoop_Bitwise(value, n) ==
    IF n = 0 THEN <<>>
    ELSE EncodeLoop_Bitwise(BigFloorDivPow2(ToInt32(value), 6), n - 1)
            \o <<ENCODE_TABLE[BigModPow2(ToInt32(value), 6)]>>

\* the loop of encodeBase64URL48: the last n characters of the result
RECURSIVE EncodeLoop(_, _)
EncodeLoop(value, n) ==
    IF n = 0 THEN <<>>
    ELSE EncodeLoop(BigFloorDivPow2(value, 6), n - 1)
            \o <<ENCODE_TABLE[BigModPow2(value, 6)]>>

\* the upper limit compared against 2^48 instead of 2^48 - 1
EncodeBase64URL48_OffByOne(value) ==
    IF BigLT(value, Zero) \/ BigGT(value, BigAdd(MAX_48_BIT, BigOfInt(1)))
    THEN Threw("TimestampRangeError")
    ELSE Returned(Str(EncodeLoop(value, 8)))

EncodeBase64URL48(value) ==
    IF BigLT(value, Zero) \/ BigGT(value, MAX_48_BIT)
    THEN Threw("TimestampRangeError")
    ELSE Returned(Str(EncodeLoop(value, 8)))

\* the loop accumulating with bitwise operators: (result << 6) | value
RECURSIVE DecodeLoop_Bitwise(_, _, _)
DecodeLoop_Bitwise(chars, i, result) ==
    IF i >= 8 THEN Returned(Num(result))
    ELSE LET charCode == chars[i + 1]
         IN  IF charCode >= 128 THEN Threw("InvalidEncodingError")
             ELSE IF DECODE_TABLE[charCode] = 255 THEN Threw("InvalidEncodingError")
             ELSE DecodeLoop_Bitwise(chars, i + 1,
                     ToInt32(BigAdd(BigMulPow2(result, 6),
                                    BigOfInt(DECODE_TABLE[charCode]))))

\* the loop of decodeTimestamp48 from index i (0-based) with accumulator result
RECURSIVE DecodeLoop(_, _, _)
DecodeLoop(chars, i, result) ==
    IF i >= 8 THEN Returned(Num(result))
    ELSE LET charCode == chars[i + 1]
         IN  IF charCode >= 128 THEN Threw("InvalidEncodingError")
             ELSE IF DECODE_TABLE[charCode] = 255 THEN Threw("InvalidEncodingError")
             ELSE DecodeLoop(chars, i + 1,
                     BigAdd(BigMulPow2(result, 6), BigOfInt(DECODE_TABLE[charCode])))

\* the length test rejecting only texts that are too short
DecodeTimestamp48_Truncating(encoded) ==
    IF encoded.kind # "string" \/ Len(encoded.chars) < 8
    THEN Threw("InvalidEncodingError")
    ELSE DecodeLoop(encoded.chars, 0, Zero)

DecodeTimestamp48(encoded) ==
    IF encoded.kind # "string" \/ Len(encoded.chars) # 8
    THEN Threw("InvalidEncodingError")
    ELSE DecodeLoop(encoded.chars, 0, Zero)

\* the validation without its try/catch
IsValidTimestamp_NoCatch(encoded) ==
    LET decoded == DecodeTimestamp48(encoded)
    IN  IF decoded.status = "threw" THEN decoded
        ELSE Returned(Bool(BigLE(Zero, decoded.val.num)
                           /\ BigLE(decoded.val.num, MAX_48_BIT)))

IsValidTimestamp(encoded) ==
    LET decoded == DecodeTimestamp48(encoded)
    IN  IF decoded.status = "threw" THEN Returned(Bool(FALSE))
        ELSE Returned(Bool(BigLE(Zero, decoded.val.num)
                           /\ BigLE(decoded.val.num, MAX_48_BIT)))

\* Number.prototype.toString(16) of a non-negative integer
HexDigit(d) == IF d < 10 THEN 48 + d ELSE 87 + d

RECURSIVE ToString16(_)
ToString16(value) ==
    IF BigLT(value, BigOfInt(16)) THEN <<HexDigit(value.lo)>>
    ELSE ToString16(BigFloorDivPow2(value, 4)) \o <<HexDigit(BigModPow2(value, 4))>>

\* String.prototype.padStart(targetLength, '0')
RECURSIVE PadStart(_, _)
PadStart(chars, targetLength) ==
    IF Len(chars) >= targetLength THEN chars
    ELSE PadStart(<<48>> \o chars, targetLength)

----------------------------------------------------------------------------
(* TimestampGenerator *)

\* new Date('2024-01-01T00:00:00.000Z').getTime() = 1704067200000
EPOCH_OFFSET == Big(101570, 5370880)

DEFAULT_CONFIG ==
    [precision |-> "milliseconds", monotonic |-> TRUE, format |-> "base64url",
     sequenceBits |-> 8, useHighResTime |-> FALSE]

\* the constructor, for a config that sets sequenceBits and passes validation
NewGenerator(bits) ==
    [config |-> [DEFAULT_CONFIG EXCEPT !.sequenceBits = bits],
     lastTimestamp |-> Zero,
     sequenceCounter |-> 0,
     maxSequence |-> (2^bits) - 1,
     generatedCount |-> 0,
     overflowCount |-> 0]

\* getStats() reporting the counters of a new generator
GetStats_Counters0(g) ==
    [lastTimestamp |-> g.lastTimestamp,
     sequenceCounter |-> g.sequenceCounter,
     maxSequence |-> g.maxSequence,
     generatedCount |-> 0,
     overflowCount |-> 0,
     config |-> g.config]

\* getStats(): the fields as they are at the call
GetStats(g) ==
    [lastTimestamp |-> g.lastTimestamp,
     sequenceCounter |-> g.sequenceCounter,
     maxSequence |-> g.maxSequence,
     generatedCount |-> g.generatedCount,
     overflowCount |-> g.overflowCount,
     config |-> g.config]

\* getTimestampStats for the generator g its options resolve to
GetTimestampStats(g) ==
    [lastTimestamp |-> GetStats(g).lastTimestamp,
     sequenceCounter |-> GetStats(g).sequenceCounter,
     maxSequence |-> GetStats(g).maxSequence,
     generatedCount |-> GetStats(g).generatedCount,
     overflowCount |-> GetStats(g).overflowCount,
     config |-> GetStats(g).config,
     maxValue |-> MAX_48_BIT,
     epochOffset |-> EPOCH_OFFSET]

\* variant: every call without exception goes to the shared default generator
GeneratorOf_AlwaysDefault(option) == "default"

\* options.generator || defaultGenerator
GeneratorOf(option) == IF option = "undefined" THEN "default" ELSE option

\* Math.floor(MAX_48_BIT / Math.pow(2, this.config.sequenceBits))
MaxTimestamp(g) == BigFloorDivPow2(MAX_48_BIT, g.config.sequenceBits)

\* (timestamp * Math.pow(2, this.config.sequenceBits)) + this.sequenceCounter
Pack(timestamp, g) ==
    BigAdd(BigMulPow2(timestamp, g.config.sequenceBits), BigOfInt(g.sequenceCounter))

\* a step of generateRaw: the generator after it, where the call stands
\* ("idle": it ended; otherwise the wait loop it is in), and its outcome
Step(g, where, out) == [gen |-> g, pc |-> where, out |-> out]

\* the same-tick branch without this.sequenceCounter++
SameTick_NoIncrement(g, now) ==
    IF g.sequenceCounter > g.maxSequence
    THEN Step([g EXCEPT !.overflowCount = @ + 1], "waitSameTick", NoOutcome)
    ELSE LET g2 == [g EXCEPT !.generatedCount = @ + 1]
         IN  Step(g2, "idle", Returned(Num(Pack(now, g2))))

\* the same-tick branch taking the last sequence value for an overflow
SameTick_OverflowEarly(g, now) ==
    LET g1 == [g EXCEPT !.sequenceCounter = @ + 1]
    IN  IF g1.sequenceCounter >= g1.maxSequence
        THEN Step([g1 EXCEPT !.overflowCount = @ + 1], "waitSameTick", NoOutcome)
        ELSE LET g2 == [g1 EXCEPT !.generatedCount = @ + 1]
             IN  Step(g2, "idle", Returned(Num(Pack(now, g2))))

\* now === this.lastTimestamp
SameTick(g, now) ==
    LET g1 == [g EXCEPT !.sequenceCounter = @ + 1]
    IN  IF g1.sequenceCounter > g1.maxSequence
        THEN Step([g1 EXCEPT !.overflowCount = @ + 1], "waitSameTick", NoOutcome)
        ELSE LET g2 == [g1 EXCEPT !.generatedCount = @ + 1]
             IN  Step(g2, "idle", Returned(Num(Pack(now, g2))))

\* the do-while of the same-tick branch giving up on a reading that is not later
SameTickWait_GivesUp(g, nextTimestamp) ==
    IF BigLE(nextTimestamp, g.lastTimestamp)
    THEN Step(g, "idle", Threw("TimestampRangeError"))
    ELSE LET g1 == [g EXCEPT !.sequenceCounter = 0,
                             !.lastTimestamp = nextTimestamp,
                             !.generatedCount = @ + 1]
         IN  Step(g1, "idle", Returned(Num(Pack(g1.lastTimestamp, g1))))

\* the do-while of the same-tick branch restarting the sequence without
\* moving lastTimestamp to the reading that ended the wait
SameTickWait_KeepsTick(g, nextTimestamp) ==
    IF BigLE(nextTimestamp, g.lastTimestamp)
    THEN Step(g, "waitSameTick", NoOutcome)
    ELSE LET g1 == [g EXCEPT !.sequenceCounter = 0,
                             !.generatedCount = @ + 1]
         IN  Step(g1, "idle", Returned(Num(Pack(g1.lastTimestamp, g1))))

\* the do-while of the same-tick branch ending without this.sequenceCounter = 0
SameTickWait_KeepsSequence(g, nextTimestamp) ==
    IF BigLE(nextTimestamp, g.lastTimestamp)
    THEN Step(g, "waitSameTick", NoOutcome)
    ELSE LET g1 == [g EXCEPT !.lastTimestamp = nextTimestamp,
                             !.generatedCount = @ + 1]
         IN  Step(g1, "idle", Returned(Num(Pack(g1.lastTimestamp, g1))))

\* one iteration of the do-while of the same-tick branch, reading nextTimestamp
SameTickWait(g, nextTimestamp) ==
    IF BigLE(nextTimestamp, g.lastTimestamp)
    THEN Step(g, "waitSameTick", NoOutcome)
    ELSE LET g1 == [g EXCEPT !.sequenceCounter = 0,
                             !.lastTimestamp = nextTimestamp,
                             !.generatedCount = @ + 1]
         IN  Step(g1, "idle", Returned(Num(Pack(g1.lastTimestamp, g1))))

\* the new-tick branch packing the sequence value of the tick before
NewTick_PacksOldSequence(g, now) ==
    LET g1 == [g EXCEPT !.lastTimestamp = now,
                        !.sequenceCounter = 0,
                        !.generatedCount = @ + 1]
    IN  Step(g1, "idle", Returned(Num(Pack(now, g))))

\* now > this.lastTimestamp
NewTick(g, now) ==
    LET g1 == [g EXCEPT !.lastTimestamp = now,
                        !.sequenceCounter = 0,
                        !.generatedCount = @ + 1]
    IN  Step(g1, "idle", Returned(Num(Pack(now, g1))))

\* the backward-clock branch packing the reading instead of lastTimestamp
ClockBackwards_UsesNow(g, now) ==
    LET g1 == [g EXCEPT !.sequenceCounter = @ + 1]
    IN  IF g1.sequenceCounter > g1.maxSequence
        THEN Step([g1 EXCEPT !.overflowCount = @ + 1], "waitBackwards", NoOutcome)
        ELSE LET g2 == [g1 EXCEPT !.generatedCount = @ + 1]
             IN  Step(g2, "idle", Returned(Num(Pack(now, g2))))

\* the backward-clock branch following the clock back, as a new tick would
ClockBackwards_AdoptsNow(g, now) ==
    LET g1 == [g EXCEPT !.lastTimestamp = now,
                        !.sequenceCounter = 0,
                        !.generatedCount = @ + 1]
    IN  Step(g1, "idle", Returned(Num(Pack(now, g1))))

\* the backward-clock branch moving on to the tick after lastTimestamp
\* instead of taking the next sequence value
ClockBackwards_AdvancesTick(g, now) ==
    LET g1 == [g EXCEPT !.lastTimestamp = BigAdd(@, BigOfInt(1)),
                        !.sequenceCounter = 0,
                        !.generatedCount = @ + 1]
    IN  Step(g1, "idle", Returned(Num(Pack(g1.lastTimestamp, g1))))

\* now < this.lastTimestamp: the clock went backwards
ClockBackwards(g, now) ==
    LET g1 == [g EXCEPT !.sequenceCounter = @ + 1]
    IN  IF g1.sequenceCounter > g1.maxSequence
        THEN Step([g1 EXCEPT !.overflowCount = @ + 1], "waitBackwards", NoOutcome)
        ELSE LET g2 == [g1 EXCEPT !.generatedCount = @ + 1]
             IN  Step(g2, "idle", Returned(Num(Pack(g2.lastTimestamp, g2))))

\* the do-while of the backward-clock branch ending when the clock has
\* caught up with lastTimestamp
BackwardsWait_Inclusive(g, nextTimestamp) ==
    IF BigLT(nextTimestamp, g.lastTimestamp)
    THEN Step(g, "waitBackwards", NoOutcome)
    ELSE LET g1 == [g EXCEPT !.lastTimestamp = nextTimestamp,
                             !.sequenceCounter = 0,
                             !.generatedCount = @ + 1]
         IN  Step(g1, "idle", Returned(Num(Pack(g1.lastTimestamp, g1))))

\* the do-while of the backward-clock branch counting an overflow on every
\* reading that does not end the wait
BackwardsWait_CountsEachRead(g, nextTimestamp) ==
    IF BigLE(nextTimestamp, g.lastTimestamp)
    THEN Step([g EXCEPT !.overflowCount = @ + 1], "waitBackwards", NoOutcome)
    ELSE LET g1 == [g EXCEPT !.lastTimestamp = nextTimestamp,
                             !.sequenceCounter = 0,
                             !.generatedCount = @ + 1]
         IN  Step(g1, "idle", Returned(Num(Pack(g1.lastTimestamp, g1))))

\* one iteration of the do-while of the backward-clock branch
BackwardsWait(g, nextTimestamp) ==
    IF BigLE(nextTimestamp, g.lastTimestamp)
    THEN Step(g, "waitBackwards", NoOutcome)
    ELSE LET g1 == [g EXCEPT !.lastTimestamp = nextTimestamp,
                             !.sequenceCounter = 0,
                             !.generatedCount = @ + 1]
         IN  Step(g1, "idle", Returned(Num(Pack(g1.lastTimestamp, g1))))

\* generateRaw without the check of the reading against maxTimestamp
GenerateRawEnter_NoCeiling(g, now) ==
    IF BigLT(now, Zero) THEN Step(g, "idle", Threw("TimestampRangeError"))
    ELSE IF now = g.lastTimestamp THEN SameTick(g, now)
    ELSE IF BigGT(now, g.lastTimestamp) THEN NewTick(g, now)
    ELSE ClockBackwards(g, now)

\* generateRaw without the check of the reading against the epoch
GenerateRawEnter_NoEpochCheck(g, now) ==
    IF BigGT(now, MaxTimestamp(g)) THEN Step(g, "idle", Threw("TimestampRangeError"))
    ELSE IF now = g.lastTimestamp THEN SameTick(g, now)
    ELSE IF BigGT(now, g.lastTimestamp) THEN NewTick(g, now)
    ELSE ClockBackwards(g, now)

\* generateRaw putting the generator back to its initial state when it throws
GenerateRawEnter_FailureResets(g, now) ==
    LET g0 == [g EXCEPT !.lastTimestamp = Zero, !.sequenceCounter = 0]
    IN  IF BigGT(now, MaxTimestamp(g)) THEN Step(g0, "idle", Threw("TimestampRangeError"))
        ELSE IF BigLT(now, Zero) THEN Step(g0, "idle", Threw("TimestampRangeError"))
        ELSE IF now = g.lastTimestamp THEN SameTick(g, now)
        ELSE IF BigGT(now, g.lastTimestamp) THEN NewTick(g, now)
        ELSE ClockBackwards(g, now)

\* generateRaw following the clock back when config.monotonic is false
GenerateRawEnter_HonoursMonotonic(g, now) ==
    IF BigGT(now, MaxTimestamp(g)) THEN Step(g, "idle", Threw("TimestampRangeError"))
    ELSE IF BigLT(now, Zero) THEN Step(g, "idle", Threw("TimestampRangeError"))
    ELSE IF now = g.lastTimestamp THEN SameTick(g, now)
    ELSE IF BigGT(now, g.lastTimestamp) THEN NewTick(g, now)
    ELSE IF g.config.monotonic THEN ClockBackwards(g, now)
    ELSE ClockBackwards_AdoptsNow(g, now)

\* generateRaw from its entry with the clock reading now, up to its return,
\* its throw, or its entry into a wait loop
GenerateRawEnter(g, now) ==
    IF BigGT(now, MaxTimestamp(g)) THEN Step(g, "idle", Threw("TimestampRangeError"))
    ELSE IF BigLT(now, Zero) THEN Step(g, "idle", Threw("TimestampRangeError"))
    ELSE IF now = g.lastTimestamp THEN SameTick(g, now)
    ELSE IF BigGT(now, g.lastTimestamp) THEN NewTick(g, now)
    ELSE ClockBackwards(g, now)

\* generateRaw resumed in its wait loop with the clock reading nextTimestamp
GenerateRawWait(g, where, nextTimestamp) ==
    IF where = "waitSameTick" THEN SameTickWait(g, nextTimestamp)
    ELSE BackwardsWait(g, nextTimestamp)

----------------------------------------------------------------------------
(* Module functions on top of generateRaw *)

\* generateTimestamp48 after generator.generateRaw() ended with rawOut;
\* format is options.format ("undefined" when the option is absent)
GenerateTimestamp48After(format, rawOut) ==
    IF rawOut.status = "threw" THEN rawOut
    ELSE LET rawValue == rawOut.val.num
             fmt == IF format = "undefined" THEN "base64url" ELSE format
         IN  IF fmt \notin {"base64url", "hex", "number"}
             THEN Threw("InvalidConfigError")
             ELSE IF fmt = "base64url" THEN EncodeBase64URL48(rawValue)
             ELSE IF fmt = "hex" THEN Returned(Str(PadStart(ToString16(rawValue), 12)))
             ELSE Returned(Num(rawValue))

\* generateRawTimestamp splitting by the default sequence width
GenerateRawTimestampAfter_DefaultWidth(g, rawOut) ==
    IF rawOut.status = "threw" THEN rawOut
    ELSE LET timestampOnly ==
                 BigFloorDivPow2(rawOut.val.num, DEFAULT_CONFIG.sequenceBits)
         IN  Returned(Num(BigAdd(timestampOnly, EPOCH_OFFSET)))

\* generateRawTimestamp after generator.generateRaw() ended with rawOut
GenerateRawTimestampAfter(g, rawOut) ==
    IF rawOut.status = "threw" THEN rawOut
    ELSE LET timestampOnly == BigFloorDivPow2(rawOut.val.num, g.config.sequenceBits)
         IN  Returned(Num(BigAdd(timestampOnly, EPOCH_OFFSET)))

\* new Date(ms)
DateOf(ms) == [kind |-> "date", num |-> ms, chars |-> <<>>]

\* timestampToDate(timestamp): a text is decoded and split by the default
\* sequence width; anything else is taken as milliseconds since 1970
TimestampToDate(timestamp) ==
    IF timestamp.kind = "string"
    THEN LET decoded == DecodeTimestamp48(timestamp)
         IN  IF decoded.status = "threw" THEN decoded
             ELSE LET rawValue == decoded.val.num
                      timestampOnly ==
                          BigFloorDivPow2(rawValue, DEFAULT_CONFIG.sequenceBits)
                  IN  Returned(DateOf(BigAdd(timestampOnly, EPOCH_OFFSET)))
    ELSE Returned(DateOf(timestamp.num))

\* GT48.generate(format = 'base64url'): the format it hands to
\* generateTimestamp48; format is "undefined" when no argument is given
GT48GenerateFormat(format) == IF format = "undefined" THEN "base64url" ELSE format

\* what the called function does with the outcome of generateRaw
After(fn, format, g, rawOut) ==
    IF fn = "generateTimestamp48" THEN GenerateTimestamp48After(format, rawOut)
    ELSE IF fn = "GT48.generate"
    THEN GenerateTimestamp48After(GT48GenerateFormat(format), rawOut)
    ELSE IF fn = "generateRawTimestamp" THEN GenerateRawTimestampAfter(g, rawOut)
    ELSE rawOut

----------------------------------------------------------------------------
(* State *)

VARIABLES
    gen,        \* the TimestampGenerator instance
    pc,         \* "idle", or the wait loop the generateRaw call in progress is in
    call,       \* the function called last (or in progress) and its format option
    now,        \* the clock reading at the start of the last call
    polled,     \* the latest clock reading of the last call
    raw,        \* outcome of generateRaw in the last call
    outcome,    \* outcome of the last call
    prevMax,    \* history: largest value generateRaw returned before the last call
    issued,     \* history: values generateTimestamp48 returned before the last call
    prevThrew,  \* history: generateRaw threw in the call before the last one
    prevStamp,  \* history: largest value generateRawTimestamp returned before the last call
    tally,      \* history: generateRaw calls on gen that returned, and that found the sequence exhausted
    inst,       \* the generator of a GT48 instance
    target,     \* the generator the last call acted on: "default" (gen) or "instance"
    stats,      \* the statistics object the last call returned, if it returned one
    caller,     \* the caller of the last call
    lastBy,     \* history: per caller, the last identifier it received before the last call
    codec,      \* the last codec call: function, argument, outcome
    built,      \* the last construction: route, sequenceBits option, outcome
    race,       \* two callers inside generateRaw on gen: their positions and local variables
    seen,       \* history: the clock readings gen has been given
    probe,      \* the last call made with an options or config argument, and how it ended
    twin        \* a second generator fed the readings gen is fed

vars == <<gen, pc, call, now, polled, raw, outcome, prevMax, issued, prevThrew,
          prevStamp, tally, inst, target, stats, caller, lastBy, codec, built,
          race, seen, probe, twin>>

\* what the actions on gen and inst through the module functions leave alone
extra == <<race, seen, probe, twin>>

genVars == <<gen, pc, call, now, polled, raw, outcome, prevMax, issued, prevThrew,
             prevStamp, tally, inst, target, stats, caller, lastBy, extra>>

\* readings of Date.now() - EPOCH_OFFSET: the ticks minTick..maxTick, the
\* largest time component the generator's sequence width leaves room for,
\* and the tick after it
Readings(g, minTick, maxTick) ==
    {BigOfInt(n) : n \in minTick..maxTick}
        \cup {MaxTimestamp(g), BigAdd(MaxTimestamp(g), BigOfInt(1))}

\* from the tick before the epoch on
ClockReadings(g) == Readings(g, -1, MaxTick)

\* the readings when calls of the module functions are interleaved
ApiClockReadings(g) == Readings(g, 0, 0)

\* options.format: absent (which selects 'base64url'), 'hex', 'number', and
\* an unsupported one
Formats == {"undefined", "hex", "number", "binary"}

NoCall == [fn |-> "none", format |-> "undefined", generator |-> "undefined"]

NoCodec == [fn |-> "none", arg |-> Undefined, out |-> NoOutcome, src |-> Undefined]

Apply(fn, arg, out, src) == [fn |-> fn, arg |-> arg, out |-> out, src |-> src]

NoConfig == [has |-> FALSE, val |-> Undefined]

\* no construction has ended yet
NoGenerator ==
    [status |-> "none", err |-> "none", sequenceBits |-> Undefined,
     maxSequence |-> Undefined]

NotBuilt == [route |-> "none", sequenceBits |-> NoConfig, out |-> NoGenerator]

None == [some |-> FALSE, v |-> Zero]

Some(b) == [some |-> TRUE, v |-> b]

\* how many callers share the default generator
MaxCallers == 2

Callers == 0..MaxCallers

NoTally == [returned |-> 0, exhausted |-> 0]

\* no statistics object has been returned yet
NoStats == [fn |-> "none", generator |-> "undefined", of |-> "default", val |-> Undefined]

\* the two callers of the interleaving study
Racers == {1, 2}

\* nobody is inside generateRaw
NoRace ==
    [atomic |-> TRUE,
     at |-> [c \in Racers |-> "idle"],
     now |-> [c \in Racers |-> Zero],
     nextTimestamp |-> [c \in Racers |-> Zero],
     done |-> <<>>]

\* an options or config argument: what kind of value it is and, for an
\* object, its generator property ("undefined": none, "notGenerator": an
\* object of another class, "instance": the generator inst) and its format
\* property
Argument(kind, generator, format) ==
    [kind |-> kind, generator |-> generator, format |-> format]

\* the call was made without the argument
Absent == Argument("undefined", "undefined", "undefined")

\* {}
EmptyObject == Argument("object", "undefined", "undefined")

\* what a function returns when it returns an object
ObjectValue == [kind |-> "object", num |-> Zero, chars |-> <<>>]

\* no call with an options argument has been made
NoProbe == [fn |-> "none", options |-> Absent]

\* the second generator is not in use
NoTwin == [gen |-> NewGenerator(DEFAULT_CONFIG.sequenceBits), pc |-> "idle", raw |-> NoOutcome]

\* the part of the initial state that is the same in every specification
Untouched ==
    /\ prevStamp = None
    /\ tally = NoTally
    /\ target = "default"
    /\ stats = NoStats
    /\ caller = 0
    /\ lastBy = [c \in Callers |-> None]
    /\ race = NoRace
    /\ seen = {}
    /\ probe = NoProbe
    /\ twin = NoTwin

\* prevStamp once the last call's value is part of the past
FoldStamp ==
    IF call.fn # "generateRawTimestamp" \/ outcome.status # "returned" THEN prevStamp
    ELSE IF prevStamp.some /\ BigGT(prevStamp.v, outcome.val.num) THEN prevStamp
    ELSE Some(outcome.val.num)

\* tally after a step of generateRaw that ended as r
Count(r) ==
    [returned |-> tally.returned + (IF r.out.status = "returned" THEN 1 ELSE 0),
     exhausted |-> tally.exhausted
                    + (IF pc = "idle" /\ r.pc # "idle" THEN 1 ELSE 0)]

\* prevMax once the last call's value is part of the past
FoldMax ==
    IF raw.status # "returned" THEN prevMax
    ELSE IF prevMax.some /\ BigGT(prevMax.v, raw.val.num) THEN prevMax
    ELSE Some(raw.val.num)

\* issued once the last call's value is part of the past
FoldIssued ==
    IF call.fn = "generateTimestamp48" /\ outcome.status = "returned"
    THEN issued \cup {outcome.val}
    ELSE issued

Init ==
    /\ \E bits \in 1..MaxSeqBits : gen = NewGenerator(bits)
    /\ pc = "idle"
    /\ call = NoCall
    /\ now = Zero
    /\ polled = Zero
    /\ raw = NoOutcome
    /\ outcome = NoOutcome
    /\ prevMax = None
    /\ issued = {}
    /\ prevThrew = FALSE
    /\ inst = NewGenerator(DEFAULT_CONFIG.sequenceBits)
    /\ Untouched
    /\ codec = NoCodec
    /\ built = NotBuilt

\* a call of fn reads the clock and runs until generateRaw ends or waits
Enter(fn, format, reading, limit) ==
    /\ pc = "idle"
    /\ gen.generatedCount < limit
    /\ now' = reading
    /\ polled' = reading
    /\ LET r == GenerateRawEnter(gen, reading)
       IN  /\ gen' = r.gen
           /\ pc' = r.pc
           /\ raw' = r.out
           /\ outcome' = IF r.pc = "idle" THEN After(fn, format, r.gen, r.out)
                         ELSE NoOutcome
           /\ tally' = Count(r)
    /\ call' = [fn |-> fn, format |-> format, generator |-> "undefined"]
    /\ target' = "default"
    /\ prevMax' = FoldMax
    /\ issued' = FoldIssued
    /\ prevThrew' = (raw.status = "threw")
    /\ prevStamp' = FoldStamp
    /\ UNCHANGED <<inst, built, extra>>

\* the call in progress reads the clock once more in its wait loop
Poll(nextTimestamp) ==
    /\ pc # "idle"
    /\ target = "default"
    /\ polled' = nextTimestamp
    /\ LET r == GenerateRawWait(gen, pc, nextTimestamp)
       IN  /\ gen' = r.gen
           /\ pc' = r.pc
           /\ raw' = r.out
           /\ outcome' = IF r.pc = "idle" THEN After(call.fn, call.format, r.gen, r.out)
                         ELSE NoOutcome
           /\ tally' = Count(r)
    /\ UNCHANGED <<call, now, prevMax, issued, prevThrew, prevStamp, inst, target,
                   stats, caller, lastBy, codec, built, extra>>

GenerateRaw ==
    /\ \E reading \in ClockReadings(gen) :
            Enter("generateRaw", "undefined", reading, MaxGenerated)
    /\ UNCHANGED <<caller, lastBy, stats, codec>>

OverflowWait ==
    \E nextTimestamp \in ClockReadings(gen) : Poll(nextTimestamp)

Next ==
    \/ GenerateRaw
    \/ OverflowWait

Spec == Init /\ [][Next]_vars

\* the clock has a reading later than the generator's lastTimestamp
CanAdvance == \E r \in ClockReadings(gen) : BigGT(r, gen.lastTimestamp)

\* the wait loop reads a clock that has passed lastTimestamp
ClockAdvances ==
    \E nextTimestamp \in ClockReadings(gen) :
        /\ BigGT(nextTimestamp, gen.lastTimestamp)
        /\ Poll(nextTimestamp)

\* the wait loop keeps reading the clock, and the clock does not stay at or
\* below lastTimestamp forever
LiveSpec ==
    /\ Init
    /\ [][Next]_vars
    /\ WF_vars(OverflowWait)
    /\ WF_vars(ClockAdvances)

----------------------------------------------------------------------------
(* The module functions and generateRaw, interleaved on one generator *)

GenerateRawDirect ==
    /\ \E reading \in ApiClockReadings(gen) :
            Enter("generateRaw", "undefined", reading, MaxApiGenerated)
    /\ UNCHANGED <<caller, lastBy, stats, codec>>

GenerateTimestamp48 ==
    /\ \E reading \in ApiClockReadings(gen), format \in Formats :
            Enter("generateTimestamp48", format, reading, MaxApiGenerated)
    /\ UNCHANGED <<caller, lastBy, stats, codec>>

GenerateRawTimestamp ==
    /\ \E reading \in ApiClockReadings(gen) :
            Enter("generateRawTimestamp", "undefined", reading, MaxApiGenerated)
    /\ UNCHANGED <<caller, lastBy, stats, codec>>

ApiOverflowWait ==
    \E nextTimestamp \in ApiClockReadings(gen) : Poll(nextTimestamp)

ApiNext ==
    \/ GenerateRawDirect
    \/ GenerateTimestamp48
    \/ GenerateRawTimestamp
    \/ ApiOverflowWait

ApiSpec == Init /\ [][ApiNext]_vars

----------------------------------------------------------------------------
(* timestampToDate on the texts of generators of several sequence widths *)

\* the widest sequence field tried; the default is 8 and 16 the largest allowed
MaxDateSeqBits == 9

\* how many identifiers a generator issues
MaxDateGenerated == 2

DateInit ==
    /\ \E bits \in 1..MaxDateSeqBits : gen = NewGenerator(bits)
    /\ pc = "idle"
    /\ call = NoCall
    /\ now = Zero
    /\ polled = Zero
    /\ raw = NoOutcome
    /\ outcome = NoOutcome
    /\ prevMax = None
    /\ issued = {}
    /\ prevThrew = FALSE
    /\ inst = NewGenerator(DEFAULT_CONFIG.sequenceBits)
    /\ Untouched
    /\ codec = NoCodec
    /\ built = NotBuilt

DateGenerate ==
    /\ \E reading \in ApiClockReadings(gen) :
            Enter("generateTimestamp48", "undefined", reading, MaxDateGenerated)
    /\ UNCHANGED <<caller, lastBy, stats, codec>>

\* timestampToDate(id) for the text id the last call returned
DateOfIssued ==
    /\ pc = "idle"
    /\ call.fn = "generateTimestamp48"
    /\ outcome.status = "returned"
    /\ codec' = Apply("timestampToDate", outcome.val,
                      TimestampToDate(outcome.val), Undefined)
    /\ UNCHANGED <<genVars, built>>

DateNext ==
    \/ DateGenerate
    \/ ApiOverflowWait
    \/ DateOfIssued

DateSpec == DateInit /\ [][DateNext]_vars

----------------------------------------------------------------------------
(* generateRawTimestamp under a clock that can be far ahead *)

\* the widest sequence field tried
MaxStampSeqBits == 3

\* how many identifiers a generator issues
MaxStampGenerated == 3

\* the reading of Date.now() - EPOCH_OFFSET when Date.now() is 2^48
FarReading == BigAdd(Big(Limb, 0), Big(-EPOCH_OFFSET.hi, -EPOCH_OFFSET.lo))

StampClockReadings(g) == Readings(g, 0, 0) \cup {FarReading}

StampInit ==
    /\ \E bits \in 1..MaxStampSeqBits : gen = NewGenerator(bits)
    /\ pc = "idle"
    /\ call = NoCall
    /\ now = Zero
    /\ polled = Zero
    /\ raw = NoOutcome
    /\ outcome = NoOutcome
    /\ prevMax = None
    /\ issued = {}
    /\ prevThrew = FALSE
    /\ inst = NewGenerator(DEFAULT_CONFIG.sequenceBits)
    /\ Untouched
    /\ codec = NoCodec
    /\ built = NotBuilt

StampGenerate ==
    /\ \E reading \in StampClockReadings(gen) :
            Enter("generateRawTimestamp", "undefined", reading, MaxStampGenerated)
    /\ UNCHANGED <<caller, lastBy, stats, codec>>

StampOverflowWait ==
    \E nextTimestamp \in StampClockReadings(gen) : Poll(nextTimestamp)

StampNext ==
    \/ StampGenerate
    \/ StampOverflowWait

StampSpec == StampInit /\ [][StampNext]_vars

----------------------------------------------------------------------------
(* The default generator and a GT48 instance side by side *)

\* config.sequenceBits of the instance: the narrowest field, so that two
\* identifiers on one tick exhaust it
InstWidths == {1}

\* how many identifiers each of the two generators issues
MaxInstGenerated == 2

\* config.format of the instance: absent (the default 'base64url'), or 'hex'
InstFormats == {DEFAULT_CONFIG.format, "hex"}

\* the generator a call resolved to
TheGenerator(t) == IF t = "default" THEN gen ELSE inst

\* readings of the clock: the epoch and the generator's last tick in range
InstClockReadings(g) == {Zero, MaxTimestamp(g)}

\* gen is the module's defaultGenerator; inst is the generator of
\* new GT48({ sequenceBits: bits, format: format })
InstInit ==
    /\ gen = NewGenerator(DEFAULT_CONFIG.sequenceBits)
    /\ \E bits \in InstWidths, format \in InstFormats :
            inst = [NewGenerator(bits) EXCEPT !.config.format = format]
    /\ pc = "idle"
    /\ call = NoCall
    /\ now = Zero
    /\ polled = Zero
    /\ raw = NoOutcome
    /\ outcome = NoOutcome
    /\ prevMax = None
    /\ issued = {}
    /\ prevThrew = FALSE
    /\ Untouched
    /\ codec = NoCodec
    /\ built = NotBuilt

\* a call of fn that resolved to the instance's generator reads the clock and
\* runs until generateRaw ends or waits
InstEnter(fn, format, reading, limit) ==
    /\ pc = "idle"
    /\ inst.generatedCount < limit
    /\ now' = reading
    /\ polled' = reading
    /\ LET r == GenerateRawEnter(inst, reading)
       IN  /\ inst' = r.gen
           /\ pc' = r.pc
           /\ raw' = r.out
           /\ outcome' = IF r.pc = "idle" THEN After(fn, format, r.gen, r.out)
                         ELSE NoOutcome
    /\ call' = [fn |-> fn, format |-> format, generator |-> "instance"]
    /\ target' = "instance"
    /\ stats' = NoStats
    /\ codec' = NoCodec
    /\ UNCHANGED <<gen, prevMax, issued, prevThrew, prevStamp, tally,
                   caller, lastBy, built, extra>>

\* the call in progress on the instance's generator reads the clock once more
InstPoll(nextTimestamp) ==
    /\ pc # "idle"
    /\ target = "instance"
    /\ polled' = nextTimestamp
    /\ LET r == GenerateRawWait(inst, pc, nextTimestamp)
       IN  /\ inst' = r.gen
           /\ pc' = r.pc
           /\ raw' = r.out
           /\ outcome' = IF r.pc = "idle" THEN After(call.fn, call.format, r.gen, r.out)
                         ELSE NoOutcome
    /\ UNCHANGED <<gen, call, now, prevMax, issued, prevThrew, prevStamp, tally,
                   target, stats, caller, lastBy, codec, built, extra>>

\* generateTimestamp48(options) or generateRawTimestamp(options), options
\* with or without the instance's generator
ModuleGenerate ==
    \E fn \in {"generateTimestamp48", "generateRawTimestamp"},
       option \in {"undefined", "instance"} :
        \E reading \in InstClockReadings(TheGenerator(GeneratorOf(option))) :
            IF GeneratorOf(option) = "default"
            THEN /\ Enter(fn, "undefined", reading, MaxInstGenerated)
                 /\ stats' = NoStats
                 /\ codec' = NoCodec
                 /\ UNCHANGED <<caller, lastBy>>
            ELSE InstEnter(fn, "undefined", reading, MaxInstGenerated)

\* instance.generate() and instance.generate('hex')
GT48Generate ==
    \E format \in {"undefined", "hex"}, reading \in InstClockReadings(inst) :
        InstEnter("GT48.generate", format, reading, MaxInstGenerated)

\* instance.generateRaw()
GT48GenerateRaw ==
    \E reading \in InstClockReadings(inst) :
        InstEnter("GT48.generateRaw", "undefined", reading, MaxInstGenerated)

InstOverflowWait ==
    \E nextTimestamp \in InstClockReadings(inst) : InstPoll(nextTimestamp)

\* getTimestampStats(options), options with or without the instance's generator
CallGetTimestampStats ==
    /\ pc = "idle"
    /\ \E option \in {"undefined", "instance"} :
            stats' = [fn |-> "getTimestampStats", generator |-> option,
                      of |-> GeneratorOf(option),
                      val |-> GetTimestampStats(TheGenerator(GeneratorOf(option)))]
    /\ codec' = NoCodec
    /\ UNCHANGED <<gen, pc, call, now, polled, raw, outcome, prevMax, issued,
                   prevThrew, prevStamp, tally, inst, target, caller, lastBy,
                   built, extra>>

\* instance.getStats()
GT48GetStats ==
    /\ pc = "idle"
    /\ stats' = [fn |-> "getStats", generator |-> "instance", of |-> "instance",
                 val |-> GetStats(inst)]
    /\ codec' = NoCodec
    /\ UNCHANGED <<gen, pc, call, now, polled, raw, outcome, prevMax, issued,
                   prevThrew, prevStamp, tally, inst, target, caller, lastBy,
                   built, extra>>

\* a codec function or timestampToDate applied to what the last call returned
CodecOfIssued ==
    /\ pc = "idle"
    /\ outcome.status = "returned"
    /\ \/ /\ outcome.val.kind = "number"
          /\ codec' = Apply("encodeBase64URL48", outcome.val,
                            EncodeBase64URL48(outcome.val.num), Undefined)
       \/ codec' = Apply("decodeTimestamp48", outcome.val,
                         DecodeTimestamp48(outcome.val), Undefined)
       \/ codec' = Apply("isValidTimestamp", outcome.val,
                         IsValidTimestamp(outcome.val), Undefined)
       \/ codec' = Apply("timestampToDate", outcome.val,
                         TimestampToDate(outcome.val), Undefined)
    /\ stats' = NoStats
    /\ UNCHANGED <<gen, pc, call, now, polled, raw, outcome, prevMax, issued,
                   prevThrew, prevStamp, tally, inst, target, caller, lastBy,
                   built, extra>>

InstNext ==
    \/ ModuleGenerate
    \/ GT48Generate
    \/ GT48GenerateRaw
    \/ InstOverflowWait
    \/ CallGetTimestampStats

InstSpec == InstInit /\ [][InstNext]_vars

\* the generating module functions with the calls that only read
StatsNext ==
    \/ ModuleGenerate
    \/ InstOverflowWait
    \/ CallGetTimestampStats
    \/ GT48GetStats
    \/ CodecOfIssued

StatsSpec == InstInit /\ [][StatsNext]_vars

\* ---- callers sharing the default generator ----

\* identifiers the callers obtain in one run
MaxCallerGenerated == 3

\* the default generator after earlier calls on tick 0 have left one free
\* value of its sequence field
BusyGenerator ==
    LET g == NewGenerator(DEFAULT_CONFIG.sequenceBits)
    IN  [g EXCEPT !.sequenceCounter = g.maxSequence - 1,
                  !.generatedCount = g.maxSequence - 1]

\* Date.now() - EPOCH_OFFSET as the callers' invocations see it
CallerClockReadings(g) == Readings(g, 0, 1)

\* lastBy once the last call's value is part of the past
FoldLastBy ==
    IF raw.status = "returned" THEN [lastBy EXCEPT ![caller] = Some(raw.val.num)]
    ELSE lastBy

CallerInit ==
    /\ gen \in {NewGenerator(DEFAULT_CONFIG.sequenceBits), BusyGenerator}
    /\ pc = "idle"
    /\ call = NoCall
    /\ now = Zero
    /\ polled = Zero
    /\ raw = NoOutcome
    /\ outcome = NoOutcome
    /\ prevMax = None
    /\ issued = {}
    /\ prevThrew = FALSE
    /\ inst = NewGenerator(DEFAULT_CONFIG.sequenceBits)
    /\ Untouched
    /\ codec = NoCodec
    /\ built = NotBuilt

\* the callback of caller c runs: generateTimestamp48() on the default
\* generator, whichever caller ran last
CallerGenerate ==
    \E c \in 1..MaxCallers, reading \in CallerClockReadings(gen) :
        /\ tally.returned < MaxCallerGenerated
        /\ Enter("generateTimestamp48", "undefined", reading, gen.generatedCount + 1)
        /\ caller' = c
        /\ lastBy' = FoldLastBy
        /\ UNCHANGED <<stats, codec>>

\* the running callback reads the clock once more in its wait loop; no other
\* callback starts before it ends
CallerOverflowWait ==
    \E nextTimestamp \in CallerClockReadings(gen) : Poll(nextTimestamp)

CallerNext ==
    \/ CallerGenerate
    \/ CallerOverflowWait

CallerSpec == CallerInit /\ [][CallerNext]_vars

\* ---- two callers inside generateRaw on one instance ----

\* config.sequenceBits of the shared instance
RaceWidths == {1}

\* the latest tick the clock shows the two callers
MaxRaceTick == 1

\* generateRaw calls started in one run
MaxRaceCalls == 3

RaceClockReadings == {BigOfInt(n) : n \in -1..MaxRaceTick}

\* variant: no mutual exclusion at all
MayRun_Unlocked(c) == TRUE

\* under mutual exclusion a caller runs only while no other caller is inside
\* generateRaw; without it every caller may take its next step at any time
MayRun(c) == race.atomic => \A d \in Racers \ {c} : race.at[d] = "idle"

RaceInit ==
    /\ \E bits \in RaceWidths : gen = NewGenerator(bits)
    /\ pc = "idle"
    /\ call = NoCall
    /\ now = Zero
    /\ polled = Zero
    /\ raw = NoOutcome
    /\ outcome = NoOutcome
    /\ prevMax = None
    /\ issued = {}
    /\ prevThrew = FALSE
    /\ inst = NewGenerator(DEFAULT_CONFIG.sequenceBits)
    /\ prevStamp = None
    /\ tally = NoTally
    /\ target = "default"
    /\ stats = NoStats
    /\ caller = 0
    /\ lastBy = [c \in Callers |-> None]
    /\ \E atomic \in BOOLEAN : race = [NoRace EXCEPT !.atomic = atomic]
    /\ seen = {}
    /\ probe = NoProbe
    /\ twin = NoTwin
    /\ codec = NoCodec
    /\ built = NotBuilt

\* what the steps of the two callers leave alone
raceFrame == <<pc, call, now, polled, raw, outcome, prevMax, issued, prevThrew,
               prevStamp, tally, inst, target, stats, caller, lastBy, codec, built,
               seen, probe, twin>>

\* caller c moves on to the statement at where, the instance becoming g
Go(c, g, where) ==
    /\ gen' = g
    /\ race' = [race EXCEPT !.at[c] = where]

\* caller c returns value, the instance becoming g
Leave(c, g, value) ==
    /\ gen' = g
    /\ race' = [race EXCEPT !.at[c] = "idle", !.done = Append(@, value)]

\* caller c enters generateRaw: const now = this._getCurrentTime() and the
\* two range checks, which throw before the instance is touched
RaceEnter(c) ==
    \E reading \in RaceClockReadings :
        /\ race.at[c] = "idle"
        /\ MayRun(c)
        /\ Len(race.done) + Cardinality({d \in Racers : race.at[d] # "idle"})
                < MaxRaceCalls
        /\ race' = IF BigGT(reading, MaxTimestamp(gen)) \/ BigLT(reading, Zero)
                   THEN race
                   ELSE [race EXCEPT !.at[c] = "compare", !.now[c] = reading]
        /\ UNCHANGED <<gen, raceFrame>>

\* caller c executes the statement it stands at
RaceStep(c) ==
    LET at == race.at[c]
        n == race.now[c]
        next == race.nextTimestamp[c]
    IN  /\ at \notin {"idle", "sameWait", "backWait"}
        /\ MayRun(c)
        /\ CASE at = "compare" ->       \* now === / > this.lastTimestamp
                    Go(c, gen, IF n = gen.lastTimestamp THEN "sameInc"
                               ELSE IF BigGT(n, gen.lastTimestamp) THEN "newSetLast"
                               ELSE "backInc")
             [] at = "sameInc" ->
                    Go(c, [gen EXCEPT !.sequenceCounter = @ + 1], "sameCheck")
             [] at = "sameCheck" ->
                    Go(c, gen, IF gen.sequenceCounter > gen.maxSequence
                               THEN "sameOverflow" ELSE "sameCount")
             [] at = "sameOverflow" ->
                    Go(c, [gen EXCEPT !.overflowCount = @ + 1], "sameWait")
             [] at = "sameReset" ->
                    Go(c, [gen EXCEPT !.sequenceCounter = 0], "sameSetLast")
             [] at = "sameSetLast" ->
                    Go(c, [gen EXCEPT !.lastTimestamp = next], "sameCountWaited")
             [] at = "sameCountWaited" ->
                    Go(c, [gen EXCEPT !.generatedCount = @ + 1], "sameReturnWaited")
             [] at = "sameReturnWaited" ->
                    Leave(c, gen, Pack(gen.lastTimestamp, gen))
             [] at = "sameCount" ->
                    Go(c, [gen EXCEPT !.generatedCount = @ + 1], "sameReturn")
             [] at = "sameReturn" ->
                    Leave(c, gen, Pack(n, gen))
             [] at = "newSetLast" ->
                    Go(c, [gen EXCEPT !.lastTimestamp = n], "newReset")
             [] at = "newReset" ->
                    Go(c, [gen EXCEPT !.sequenceCounter = 0], "newCount")
             [] at = "newCount" ->
                    Go(c, [gen EXCEPT !.generatedCount = @ + 1], "newReturn")
             [] at = "newReturn" ->
                    Leave(c, gen, Pack(n, gen))
             [] at = "backInc" ->
                    Go(c, [gen EXCEPT !.sequenceCounter = @ + 1], "backCheck")
             [] at = "backCheck" ->
                    Go(c, gen, IF gen.sequenceCounter > gen.maxSequence
                               THEN "backOverflow" ELSE "backCount")
             [] at = "backOverflow" ->
                    Go(c, [gen EXCEPT !.overflowCount = @ + 1], "backWait")
             [] at = "backSetLast" ->
                    Go(c, [gen EXCEPT !.lastTimestamp = next], "backReset")
             [] at = "backReset" ->
                    Go(c, [gen EXCEPT !.sequenceCounter = 0], "backCountWaited")
             [] at = "backCountWaited" ->
                    Go(c, [gen EXCEPT !.generatedCount = @ + 1], "backReturnWaited")
             [] at = "backReturnWaited" ->
                    Leave(c, gen, Pack(gen.lastTimestamp, gen))
             [] at = "backCount" ->
                    Go(c, [gen EXCEPT !.generatedCount = @ + 1], "backReturn")
             [] at = "backReturn" ->
                    Leave(c, gen, Pack(gen.lastTimestamp, gen))
        /\ UNCHANGED raceFrame

\* one iteration of caller c's do-while: nextTimestamp = this._getCurrentTime(),
\* then the test nextTimestamp <= this.lastTimestamp
RaceWait(c) ==
    \E reading \in RaceClockReadings \cup {BigOfInt(MaxRaceTick + 1)} :
        /\ race.at[c] \in {"sameWait", "backWait"}
        /\ MayRun(c)
        /\ race' = [race EXCEPT
                      !.nextTimestamp[c] = reading,
                      !.at[c] = IF BigLE(reading, gen.lastTimestamp) THEN @
                                ELSE IF @ = "sameWait" THEN "sameReset"
                                ELSE "backSetLast"]
        /\ UNCHANGED <<gen, raceFrame>>

RaceNext ==
    \E c \in Racers :
        \/ RaceEnter(c)
        \/ RaceStep(c)
        \/ RaceWait(c)

RaceSpec == RaceInit /\ [][RaceNext]_vars

\* ---- the readings a generator has been given ----

\* config.sequenceBits of the generator observed
SeenWidths == {1}

\* the latest tick the clock shows
MaxSeenTick == 2

\* identifiers generated in one run
MaxSeenGenerated == 3

SeenClockReadings(g) == Readings(g, -1, MaxSeenTick)

SeenInit ==
    /\ \E bits \in SeenWidths : gen = NewGenerator(bits)
    /\ pc = "idle"
    /\ call = NoCall
    /\ now = Zero
    /\ polled = Zero
    /\ raw = NoOutcome
    /\ outcome = NoOutcome
    /\ prevMax = None
    /\ issued = {}
    /\ prevThrew = FALSE
    /\ inst = NewGenerator(DEFAULT_CONFIG.sequenceBits)
    /\ Untouched
    /\ codec = NoCodec
    /\ built = NotBuilt

\* what a generateRaw call leaves alone when only the instance, the call's
\* outcome and the readings are followed
seenFrame == <<outcome, prevMax, issued, prevThrew, prevStamp, tally, inst, target,
               stats, caller, lastBy, codec, built, race, probe, twin>>

\* generateRaw() starts: this._getCurrentTime() returns reading
SeenGenerate ==
    \E reading \in SeenClockReadings(gen) :
        /\ pc = "idle"
        /\ gen.generatedCount < MaxSeenGenerated
        /\ now' = reading
        /\ polled' = reading
        /\ seen' = seen \cup {reading}
        /\ LET r == GenerateRawEnter(gen, reading)
           IN  /\ gen' = r.gen
               /\ pc' = r.pc
               /\ raw' = r.out
        /\ call' = [fn |-> "generateRaw", format |-> "undefined", generator |-> "undefined"]
        /\ UNCHANGED seenFrame

\* the call in progress reads the clock once more in its wait loop
SeenWait ==
    \E nextTimestamp \in SeenClockReadings(gen) :
        /\ pc # "idle"
        /\ polled' = nextTimestamp
        /\ seen' = seen \cup {nextTimestamp}
        /\ LET r == GenerateRawWait(gen, pc, nextTimestamp)
           IN  /\ gen' = r.gen
               /\ pc' = r.pc
               /\ raw' = r.out
        /\ UNCHANGED <<call, now, seenFrame>>

SeenNext ==
    \/ SeenGenerate
    \/ SeenWait

SeenSpec == SeenInit /\ [][SeenNext]_vars

\* ---- two generators fed the same readings ----

\* config.sequenceBits of both generators
PairWidths == {1}

\* the latest tick the clock shows
MaxPairTick == 1

\* identifiers generated by each generator in one run
MaxPairGenerated == 3

\* the values _validateConfig accepts for the three settings
MonotonicValues == BOOLEAN

PrecisionValues == {"seconds", "milliseconds", "nanoseconds"}

FormatValues == {"base64url", "hex", "binary"}

PairClockReadings(g) == Readings(g, -1, MaxPairTick)

\* gen is new TimestampGenerator({ sequenceBits }) and twin.gen is
\* new TimestampGenerator({ sequenceBits, monotonic, precision, format })
PairInit ==
    /\ \E bits \in PairWidths :
        /\ gen = NewGenerator(bits)
        /\ \E monotonic \in MonotonicValues, precision \in PrecisionValues,
              format \in FormatValues :
                twin = [gen |-> [NewGenerator(bits) EXCEPT
                                    !.config.monotonic = monotonic,
                                    !.config.precision = precision,
                                    !.config.format = format],
                        pc |-> "idle",
                        raw |-> NoOutcome]
    /\ pc = "idle"
    /\ call = NoCall
    /\ now = Zero
    /\ polled = Zero
    /\ raw = NoOutcome
    /\ outcome = NoOutcome
    /\ prevMax = None
    /\ issued = {}
    /\ prevThrew = FALSE
    /\ inst = NewGenerator(DEFAULT_CONFIG.sequenceBits)
    /\ prevStamp = None
    /\ tally = NoTally
    /\ target = "default"
    /\ stats = NoStats
    /\ caller = 0
    /\ lastBy = [c \in Callers |-> None]
    /\ race = NoRace
    /\ seen = {}
    /\ probe = NoProbe
    /\ codec = NoCodec
    /\ built = NotBuilt

\* what generateRaw on the two generators leaves alone
pairFrame == <<call, outcome, issued, prevThrew, prevStamp, tally, inst, target,
               stats, caller, lastBy, codec, built, race, seen, probe>>

\* generator g standing at where is given the next reading of the clock: a
\* call starts with it, or the wait loop of the call in progress reads it
Feed(g, where, reading) ==
    IF where = "idle" THEN GenerateRawEnter(g, reading)
    ELSE GenerateRawWait(g, where, reading)

\* generateRaw() is called on both generators and reads the same clock
PairGenerate ==
    \E reading \in PairClockReadings(gen) :
        /\ pc = "idle"
        /\ gen.generatedCount < MaxPairGenerated
        /\ now' = reading
        /\ polled' = reading
        /\ prevMax' = FoldMax
        /\ LET r == Feed(gen, pc, reading)
               t == Feed(twin.gen, twin.pc, reading)
           IN  /\ gen' = r.gen
               /\ pc' = r.pc
               /\ raw' = r.out
               /\ twin' = [gen |-> t.gen, pc |-> t.pc, raw |-> t.out]
        /\ UNCHANGED pairFrame

\* the calls in progress read the clock once more
PairWait ==
    \E reading \in PairClockReadings(gen) :
        /\ pc # "idle"
        /\ polled' = reading
        /\ LET r == Feed(gen, pc, reading)
               t == Feed(twin.gen, twin.pc, reading)
           IN  /\ gen' = r.gen
               /\ pc' = r.pc
               /\ raw' = r.out
               /\ twin' = [gen |-> t.gen, pc |-> t.pc, raw |-> t.out]
        /\ UNCHANGED <<now, prevMax, pairFrame>>

PairNext ==
    \/ PairGenerate
    \/ PairWait

PairSpec == PairInit /\ [][PairNext]_vars

----------------------------------------------------------------------------
(* Construction: the sequenceBits option through the four ways to a generator *)

\* the largest integer tried as sequenceBits; 16 is the largest allowed
MaxOptionBits == 18

\* the number whole + 0.5
Frac(whole) == [kind |-> "fraction", num |-> BigOfInt(whole), chars |-> <<>>]

NaN == [kind |-> "nan", num |-> Zero, chars |-> <<>>]

Infinity == [kind |-> "infinity", num |-> Zero, chars |-> <<>>]

\* Number.isInteger(v): the numbers of kind "number" are the integers
IsInteger(v) == v.kind = "number"

\* a config object whose own property sequenceBits holds v
WithSequenceBits(v) == [has |-> TRUE, val |-> v]

\* config.sequenceBits: undefined when the object has no such property
SequenceBitsOf(config) == IF config.has THEN config.val ELSE Undefined

\* _validateConfig(config), for a config with no other property set
ValidateConfig(config) ==
    LET bits == SequenceBitsOf(config)
    IN  IF bits # Undefined
            /\ (\/ ~IsInteger(bits)
                \/ BigLT(bits.num, BigOfInt(1))
                \/ BigGT(bits.num, BigOfInt(16)))
        THEN Threw("InvalidConfigError")
        ELSE Returned(Undefined)

\* { ...DEFAULT_CONFIG, ...config }.sequenceBits: an own property of config
\* replaces the default, whatever its value
MergedSequenceBits(config) ==
    IF config.has THEN config.val ELSE Num(BigOfInt(DEFAULT_CONFIG.sequenceBits))

\* Math.pow(2, bits) - 1, for what passes _validateConfig: an integer from 1
\* to 16, or undefined
MaxSequenceOf(bits) ==
    IF IsInteger(bits) THEN Num(BigOfInt((2^bits.num.lo) - 1)) ELSE NaN

\* new TimestampGenerator(config)
TimestampGenerator(config) ==
    IF ValidateConfig(config).status = "threw"
    THEN [NoGenerator EXCEPT !.status = "threw", !.err = "InvalidConfigError"]
    ELSE [status |-> "returned", err |-> "none",
          sequenceBits |-> MergedSequenceBits(config),
          maxSequence |-> MaxSequenceOf(MergedSequenceBits(config))]

\* createGenerator(config), config an object
CreateGenerator(config) == TimestampGenerator(config)

\* new GT48(config): its generator
GT48(config) == TimestampGenerator(config)

\* new GT48Builder().sequenceBits(bits).build(), or .build() at once when
\* called is FALSE
GT48Builder(called, bits) ==
    GT48(IF called THEN WithSequenceBits(bits) ELSE NoConfig)

\* values given as sequenceBits: integers around and far from 1..16, numbers
\* that are not integers, and values that are not numbers (the text is "8")
OptionValues ==
    {Num(BigOfInt(n)) : n \in (-2)..MaxOptionBits}
        \cup {Num(Big(0, 256)), Num(Big(1, 8)), Num(Big(-1, Limb - 8))}
        \cup {Frac(n) : n \in {0, 1, 8, 16}}
        \cup {NaN, Infinity, Str(<<56>>), Str(<<>>), Null, Undefined, Bool(TRUE)}

Configs == {NoConfig} \cup {WithSequenceBits(v) : v \in OptionValues}

Constructed(route, config, out) ==
    /\ built' = [route |-> route, sequenceBits |-> config, out |-> out]
    /\ UNCHANGED <<genVars, codec>>

NewTimestampGenerator ==
    \E config \in Configs :
        Constructed("TimestampGenerator", config, TimestampGenerator(config))

CallCreateGenerator ==
    \E config \in Configs :
        Constructed("createGenerator", config, CreateGenerator(config))

NewGT48 ==
    \E config \in Configs : Constructed("GT48", config, GT48(config))

BuilderBuild ==
    \/ Constructed("GT48Builder", NoConfig, GT48Builder(FALSE, Undefined))
    \/ \E bits \in OptionValues :
            Constructed("GT48Builder", WithSequenceBits(bits), GT48Builder(TRUE, bits))

CtorNext ==
    \/ NewTimestampGenerator
    \/ CallCreateGenerator
    \/ NewGT48
    \/ BuilderBuild

CtorSpec == Init /\ [][CtorNext]_vars

\* ---- the options argument of the module functions ----

\* identifiers generated by each generator in one run
MaxOptGenerated == 2

\* absent, null, 42, 'x', and objects with and without a generator and a
\* format property
Arguments ==
    {Absent, Argument("null", "undefined", "undefined"),
     Argument("number", "undefined", "undefined"),
     Argument("string", "undefined", "undefined")}
        \cup {Argument("object", g, f) :
                g \in {"undefined", "notGenerator", "instance"},
                f \in {"undefined", "hex", "binary"}}

\* function f(options = {}): the default replaces an absent argument only
DefaultParameter(arg) == IF arg.kind = "undefined" THEN EmptyObject ELSE arg

\* if (options !== null && typeof options !== 'object') throw ...
CheckArgument(o) ==
    IF o.kind # "null" /\ o.kind # "object"
    THEN Threw("InvalidConfigError")
    ELSE Returned(Undefined)

\* options.generator || defaultGenerator and the instanceof test; reading a
\* property of null throws a TypeError
ResolveGenerator(o) ==
    IF o.kind = "null" THEN [out |-> Threw("TypeError"), generator |-> "none"]
    ELSE IF GeneratorOf(o.generator) = "notGenerator"
    THEN [out |-> Threw("InvalidConfigError"), generator |-> "none"]
    ELSE [out |-> Returned(Undefined), generator |-> GeneratorOf(o.generator)]

\* the first lines of generateTimestamp48 and getTimestampStats
Resolve(arg) ==
    LET o == DefaultParameter(arg)
    IN  IF CheckArgument(o).status = "threw"
        THEN [out |-> CheckArgument(o), generator |-> "none"]
        ELSE ResolveGenerator(o)

\* generateTimestamp48(arg) with the default generator d, the instance's
\* generator i and the clock reading `reading`: both generators, the
\* generator acted on, and the call's position and outcome afterwards
GenerateTimestamp48Call(arg, d, i, reading) ==
    LET res == Resolve(arg)
        o == DefaultParameter(arg)
        r == GenerateRawEnter(IF res.generator = "instance" THEN i ELSE d, reading)
    IN  IF res.out.status = "threw"
        THEN [gen |-> d, inst |-> i, target |-> "none", pc |-> "idle",
              raw |-> NoOutcome, outcome |-> res.out]
        ELSE [gen |-> IF res.generator = "default" THEN r.gen ELSE d,
              inst |-> IF res.generator = "instance" THEN r.gen ELSE i,
              target |-> res.generator,
              pc |-> r.pc,
              raw |-> r.out,
              outcome |-> IF r.pc = "idle"
                          THEN GenerateTimestamp48After(o.format, r.out)
                          ELSE NoOutcome]

\* getTimestampStats(arg): the outcome and the generator reported
GetTimestampStatsCall(arg) ==
    LET res == Resolve(arg)
    IN  IF res.out.status = "threw"
        THEN [outcome |-> res.out, stats |-> NoStats]
        ELSE [outcome |-> Returned(ObjectValue),
              stats |-> [fn |-> "getTimestampStats",
                         generator |-> DefaultParameter(arg).generator,
                         of |-> res.generator,
                         val |-> GetTimestampStats(TheGenerator(res.generator))]]

\* createGenerator(arg): new TimestampGenerator(config) applies its own
\* default to an absent config only, and _validateConfig reads
\* config.precision first, a TypeError for null; 'hex' and 'binary' are
\* formats it accepts, and it ignores a generator property
CreateGeneratorCall(arg) ==
    LET o == DefaultParameter(arg)
    IN  IF CheckArgument(o).status = "threw"
        THEN [NoGenerator EXCEPT !.status = "threw", !.err = "InvalidConfigError"]
        ELSE IF o.kind = "null"
        THEN [NoGenerator EXCEPT !.status = "threw", !.err = "TypeError"]
        ELSE CreateGenerator(NoConfig)

OptClockReadings == {Zero, MaxTimestamp(inst)}

\* gen is the module's defaultGenerator, inst a generator made with
\* createGenerator({ sequenceBits: 1 })
OptInit ==
    /\ gen = NewGenerator(DEFAULT_CONFIG.sequenceBits)
    /\ pc = "idle"
    /\ call = NoCall
    /\ now = Zero
    /\ polled = Zero
    /\ raw = NoOutcome
    /\ outcome = NoOutcome
    /\ prevMax = None
    /\ issued = {}
    /\ prevThrew = FALSE
    /\ \E bits \in InstWidths : inst = NewGenerator(bits)
    /\ Untouched
    /\ codec = NoCodec
    /\ built = NotBuilt

\* what the calls with an options argument leave alone
optFrame == <<prevMax, issued, prevThrew, prevStamp, tally, caller, lastBy, codec,
              race, seen, twin>>

\* generateTimestamp48(arg)
OptGenerateTimestamp48 ==
    \E arg \in Arguments, reading \in OptClockReadings :
        LET res == GenerateTimestamp48Call(arg, gen, inst, reading)
        IN  /\ pc = "idle"
            /\ res.target = "default" => gen.generatedCount < MaxOptGenerated
            /\ res.target = "instance" => inst.generatedCount < MaxOptGenerated
            /\ gen' = res.gen
            /\ inst' = res.inst
            /\ pc' = res.pc
            /\ raw' = res.raw
            /\ outcome' = res.outcome
            /\ target' = IF res.target = "instance" THEN "instance" ELSE "default"
            /\ now' = reading
            /\ polled' = reading
            /\ call' = [fn |-> "generateTimestamp48",
                        format |-> DefaultParameter(arg).format,
                        generator |-> IF res.target = "instance" THEN "instance"
                                      ELSE "undefined"]
            /\ probe' = [fn |-> "generateTimestamp48", options |-> arg]
            /\ stats' = NoStats
            /\ UNCHANGED <<built, optFrame>>

\* the generateTimestamp48 call in progress reads the clock once more
OptOverflowWait ==
    \E nextTimestamp \in OptClockReadings :
        IF target = "default" THEN Poll(nextTimestamp) ELSE InstPoll(nextTimestamp)

\* getTimestampStats(arg)
OptGetTimestampStats ==
    \E arg \in Arguments :
        /\ pc = "idle"
        /\ outcome' = GetTimestampStatsCall(arg).outcome
        /\ stats' = GetTimestampStatsCall(arg).stats
        /\ call' = [fn |-> "getTimestampStats", format |-> "undefined",
                    generator |-> "undefined"]
        /\ probe' = [fn |-> "getTimestampStats", options |-> arg]
        /\ raw' = NoOutcome
        /\ UNCHANGED <<gen, inst, pc, now, polled, target, built, optFrame>>

\* createGenerator(arg)
OptCreateGenerator ==
    \E arg \in Arguments :
        /\ pc = "idle"
        /\ built' = [route |-> "createGenerator", sequenceBits |-> NoConfig,
                     out |-> CreateGeneratorCall(arg)]
        /\ outcome' = IF CreateGeneratorCall(arg).status = "threw"
                      THEN Threw(CreateGeneratorCall(arg).err)
                      ELSE Returned(ObjectValue)
        /\ call' = [fn |-> "createGenerator", format |-> "undefined",
                    generator |-> "undefined"]
        /\ probe' = [fn |-> "createGenerator", options |-> arg]
        /\ raw' = NoOutcome
        /\ stats' = NoStats
        /\ UNCHANGED <<gen, inst, pc, now, polled, target, optFrame>>

OptNext ==
    \/ OptGenerateTimestamp48
    \/ OptOverflowWait
    \/ OptGetTimestampStats
    \/ OptCreateGenerator

OptSpec == OptInit /\ [][OptNext]_vars

----------------------------------------------------------------------------
(* The codec on its own: an argument is drawn, then the functions are applied *)

\* how far the sampled numbers and texts spread around their base points
SampleSpan == 1

\* texts over the alphabet: character i is the symbol start + i * stride
MaxStride == 2

Around(bases) == {b + d : b \in bases, d \in -SampleSpan..SampleSpan}

\* integers from below 0 to above 2^48 - 1
NumberSamples ==
    {Big(h, l) : h \in Around({0, 64, 2^23, Limb}) \cap (-1..(Limb + 1)),
                 l \in Around({0, 52, 64, 4096, 2^18, Limb}) \cap (0..(Limb - 1))}

\* 'A' 'Z' 'a' 'z' '0' '9' '-' '_', then '+' '/' '=' '!' ' ' NUL '@' '[' DEL
\* and three code units above 127
CharSamples ==
    {65, 90, 97, 122, 48, 57, 45, 95}
        \cup {43, 47, 61, 33, 32, 0, 64, 91, 127, 128, 233, 20013}

AlphabetTexts ==
    {[i \in 1..8 |-> BASE64URL_CHARS[((start + i * stride) % 64) + 1]] :
        start \in 0..63, stride \in 0..MaxStride}

BaseTexts == {[i \in 1..8 |-> c] : c \in {65, 95, 103}}

\* a base text with one character replaced, cut short, or one character longer
VariedTexts ==
    {[t EXCEPT ![p] = c] : t \in BaseTexts, p \in 1..8, c \in CharSamples}
        \cup {SubSeq(t, 1, n) : t \in BaseTexts, n \in 0..7}
        \cup {t \o <<c>> : t \in BaseTexts, c \in CharSamples}

\* values that are not strings; the object stands for an array of 8 symbols
NonStrings ==
    {Num(Zero), Num(BigOfInt(12345678)), Null, Undefined, Bool(TRUE),
     [kind |-> "object", num |-> Zero, chars |-> [i \in 1..8 |-> 65]]}

CodecArgs ==
    {Num(v) : v \in NumberSamples}
        \cup {Str(t) : t \in AlphabetTexts \cup VariedTexts}
        \cup NonStrings

CodecInit ==
    /\ gen = NewGenerator(DEFAULT_CONFIG.sequenceBits)
    /\ pc = "idle"
    /\ call = NoCall
    /\ now = Zero
    /\ polled = Zero
    /\ raw = NoOutcome
    /\ outcome = NoOutcome
    /\ prevMax = None
    /\ issued = {}
    /\ prevThrew = FALSE
    /\ inst = NewGenerator(DEFAULT_CONFIG.sequenceBits)
    /\ Untouched
    /\ built = NotBuilt
    /\ \E a \in CodecArgs : codec = [NoCodec EXCEPT !.arg = a]

Encode ==
    /\ codec.fn = "none"
    /\ codec.arg.kind = "number"
    /\ codec' = Apply("encodeBase64URL48", codec.arg,
                      EncodeBase64URL48(codec.arg.num), Undefined)
    /\ UNCHANGED <<genVars, built>>

Decode ==
    /\ codec.fn = "none"
    /\ codec' = Apply("decodeTimestamp48", codec.arg,
                      DecodeTimestamp48(codec.arg), Undefined)
    /\ UNCHANGED <<genVars, built>>

IsValid ==
    /\ codec.fn = "none"
    /\ codec' = Apply("isValidTimestamp", codec.arg,
                      IsValidTimestamp(codec.arg), Undefined)
    /\ UNCHANGED <<genVars, built>>

\* decodeTimestamp48(encodeBase64URL48(v))
DecodeEncoded ==
    /\ codec.fn = "encodeBase64URL48"
    /\ codec.src = Undefined
    /\ codec.out.status = "returned"
    /\ codec' = Apply("decodeTimestamp48", codec.out.val,
                      DecodeTimestamp48(codec.out.val), codec.arg)
    /\ UNCHANGED <<genVars, built>>

\* encodeBase64URL48(decodeTimestamp48(t))
EncodeDecoded ==
    /\ codec.fn = "decodeTimestamp48"
    /\ codec.src = Undefined
    /\ codec.out.status = "returned"
    /\ codec' = Apply("encodeBase64URL48", codec.out.val,
                      EncodeBase64URL48(codec.out.val.num), codec.arg)
    /\ UNCHANGED <<genVars, built>>

CodecNext ==
    \/ Encode
    \/ Decode
    \/ IsValid
    \/ DecodeEncoded
    \/ EncodeDecoded

CodecSpec == CodecInit /\ [][CodecNext]_vars

----------------------------------------------------------------------------
(* Properties *)

\* the 64 symbols A-Z a-z 0-9 - _ as char codes
Alphabet == (65..90) \cup (97..122) \cup (48..57) \cup {45, 95}

\* a string of exactly 8 symbols of the alphabet
IsAlphabetText(v) ==
    /\ v.kind = "string"
    /\ Len(v.chars) = 8
    /\ \A i \in 1..8 : v.chars[i] \in Alphabet

InRange48(b) == BigLE(Zero, b) /\ BigLE(b, MAX_48_BIT)

LowerHexDigits == (48..57) \cup (97..102)

\* the number a text of lowercase hexadecimal digits denotes
RECURSIVE HexValue(_, _)
HexValue(chars, acc) ==
    IF chars = <<>> THEN acc
    ELSE LET c == Head(chars)
             d == IF c <= 57 THEN c - 48 ELSE c - 87
         IN  HexValue(Tail(chars), BigAdd(BigMulPow2(acc, 4), BigOfInt(d)))

\* C1: each value a generateRaw call returns is strictly greater than every
\* value returned by an earlier call on the instance, whatever the clock read
C1_StrictlyIncreasing ==
    (raw.status = "returned" /\ prevMax.some) => BigLT(prevMax.v, raw.val.num)

\* a call that read a clock value below lastTimestamp returned a value after
\* earlier values had been returned
C1_Witness ==
    /\ pc = "idle"
    /\ raw.status = "returned"
    /\ prevMax.some
    /\ BigLT(now, gen.lastTimestamp)
    /\ gen.overflowCount = 0

\* C2: an identifier returned by generateTimestamp48 differs from every
\* identifier it returned before, also with generateRaw and
\* generateRawTimestamp calls in between
C2_Distinct ==
    (call.fn = "generateTimestamp48" /\ outcome.status = "returned")
        => outcome.val \notin issued

\* generateTimestamp48 returned a further identifier on the tick of an earlier
\* one, and a call of another function had consumed a value from the generator
C2_Witness ==
    /\ call.fn = "generateTimestamp48"
    /\ outcome.status = "returned"
    /\ Cardinality(issued) >= 1
    /\ gen.generatedCount > Cardinality(issued) + 1
    /\ gen.sequenceCounter >= 1

\* C3: every value generateRaw returns is in [0, 2^48 - 1] and its time
\* component is at most floor((2^48 - 1) / 2^sequenceBits), on every return
\* path including the one after the sequence-overflow wait
C3_ValueInRange ==
    raw.status = "returned" =>
        /\ InRange48(raw.val.num)
        /\ BigLE(BigFloorDivPow2(raw.val.num, gen.config.sequenceBits),
                 MaxTimestamp(gen))

\* C4: decodeTimestamp48(encodeBase64URL48(v)) = v for every integer v in
\* [0, 2^48 - 1]
C4_DecodeEncode ==
    /\ (codec.fn = "encodeBase64URL48" /\ codec.src = Undefined
            /\ InRange48(codec.arg.num))
        => codec.out.status = "returned"
    /\ (codec.fn = "decodeTimestamp48" /\ codec.src.kind = "number")
        => codec.out = Returned(codec.src)

\* the text of a value above 2^47 was decoded back to the value
C4_Witness ==
    /\ codec.fn = "decodeTimestamp48"
    /\ codec.src.kind = "number"
    /\ BigGT(codec.src.num, Big(2^23, 0))
    /\ codec.out = Returned(codec.src)

\* C5: for every 8-character text t over the alphabet, decodeTimestamp48(t)
\* is an integer in [0, 2^48 - 1] and encodeBase64URL48 of it is t again
C5_EncodeDecode ==
    /\ (codec.fn = "decodeTimestamp48" /\ codec.src = Undefined
            /\ IsAlphabetText(codec.arg))
        => (codec.out.status = "returned" /\ codec.out.val.kind = "number"
                /\ InRange48(codec.out.val.num))
    /\ (codec.fn = "encodeBase64URL48" /\ codec.src.kind = "string")
        => codec.out = Returned(codec.src)

\* the text "________" was decoded and encoded back to itself
C5_Witness ==
    /\ codec.fn = "encodeBase64URL48"
    /\ codec.src = Str([i \in 1..8 |-> 95])
    /\ codec.out = Returned(codec.src)

\* C6: decodeTimestamp48 fails with InvalidEncodingError for every argument
\* that is not a string of exactly 8 characters and for every 8-character
\* string with a character outside the alphabet
C6_DecodeRejects ==
    (codec.fn = "decodeTimestamp48" /\ ~IsAlphabetText(codec.arg))
        => codec.out = Threw("InvalidEncodingError")

\* an 8-character text containing '+' was rejected
C6_Witness ==
    /\ codec.fn = "decodeTimestamp48"
    /\ codec.arg.kind = "string"
    /\ Len(codec.arg.chars) = 8
    /\ \E i \in 1..8 : codec.arg.chars[i] = 43
    /\ codec.out = Threw("InvalidEncodingError")

\* C7: encodeBase64URL48 fails with TimestampRangeError below 0 and above
\* 2^48 - 1 and returns an 8-character text for every integer in between
C7_EncodeRange ==
    (codec.fn = "encodeBase64URL48") =>
        IF InRange48(codec.arg.num)
        THEN /\ codec.out.status = "returned"
             /\ codec.out.val.kind = "string"
             /\ Len(codec.out.val.chars) = 8
        ELSE codec.out = Threw("TimestampRangeError")

\* 2^48 was rejected
C7_Witness ==
    /\ codec.fn = "encodeBase64URL48"
    /\ codec.arg = Num(Big(Limb, 0))
    /\ codec.out = Threw("TimestampRangeError")

\* C8: isValidTimestamp(x) returns true exactly when decodeTimestamp48(x)
\* returns a value, false otherwise, and never throws
C8_IsValidIffDecodes ==
    (codec.fn = "isValidTimestamp") =>
        /\ codec.out.status = "returned"
        /\ codec.out.val.kind = "boolean"
        /\ (codec.out.val = Bool(TRUE))
            <=> (DecodeTimestamp48(codec.arg).status = "returned")

\* isValidTimestamp returned false for an 8-character text with a character
\* outside the alphabet
C8_Witness ==
    /\ codec.fn = "isValidTimestamp"
    /\ codec.arg.kind = "string"
    /\ Len(codec.arg.chars) = 8
    /\ ~IsAlphabetText(codec.arg)
    /\ codec.out = Returned(Bool(FALSE))

C10_HexTwelveDigits ==
    (call.fn = "generateTimestamp48" /\ call.format = "hex"
            /\ outcome.status = "returned")
        => /\ outcome.val.kind = "string"
           /\ Len(outcome.val.chars) = 12
           /\ \A i \in 1..Len(outcome.val.chars) : outcome.val.chars[i] \in LowerHexDigits
           /\ raw.status = "returned"
           /\ HexValue(outcome.val.chars, Zero) = raw.val.num

----------------------------------------------------------------------------
(* The generateRaw branches *)

\* the time component of a packed identifier of generator g
TimeOf(v, g) == BigFloorDivPow2(v, g.config.sequenceBits)

\* the sequence field of a packed identifier of generator g
SequenceOf(v, g) == BigModPow2(v, g.config.sequenceBits)

\* C11: a generateRaw call whose clock reading at its start is greater than
\* max_time fails with TimestampRangeError and leaves lastTimestamp,
\* sequenceCounter, generatedCount and overflowCount as they were; it
\* returns no value
C11_CeilingFails ==
    [][(pc = "idle" /\ BigGT(now', MaxTimestamp(gen)))
        => /\ raw' = Threw("TimestampRangeError")
           /\ pc' = "idle"
           /\ gen' = gen]_vars

\* a generator that has issued identifiers in one tick refused a reading
\* past max_time
C11_Witness ==
    /\ pc = "idle"
    /\ raw = Threw("TimestampRangeError")
    /\ BigGT(now, MaxTimestamp(gen))
    /\ gen.generatedCount >= 2
    /\ gen.sequenceCounter >= 1

\* C12: a generateRaw call whose clock reading at its start is below 0 fails
\* with TimestampRangeError and leaves the generator as it was, also when
\* lastTimestamp is positive
C12_BeforeEpochFails ==
    [][(pc = "idle" /\ BigLT(now', Zero))
        => /\ raw' = Threw("TimestampRangeError")
           /\ pc' = "idle"
           /\ gen' = gen]_vars

\* a generator whose lastTimestamp is positive refused a reading below 0
C12_Witness ==
    /\ pc = "idle"
    /\ raw = Threw("TimestampRangeError")
    /\ BigLT(now, Zero)
    /\ BigGT(gen.lastTimestamp, Zero)
    /\ gen.generatedCount >= 1

\* C13: a generateRaw call whose clock reading t at its start satisfies
\* 0 <= t < last_time (t within max_time) while the sequence is below its
\* maximum returns the identifier of the stale last_time and sequence + 1,
\* greater than every identifier returned before, and leaves last_time as
\* it was
C13_BackwardReusesLastTime ==
    [][(/\ pc = "idle"
        /\ BigLE(Zero, now')
        /\ BigLE(now', MaxTimestamp(gen))
        /\ BigLT(now', gen.lastTimestamp)
        /\ gen.sequenceCounter < gen.maxSequence)
        => /\ pc' = "idle"
           /\ raw'.status = "returned"
           /\ TimeOf(raw'.val.num, gen) = gen.lastTimestamp
           /\ SequenceOf(raw'.val.num, gen) = gen.sequenceCounter + 1
           /\ gen'.lastTimestamp = gen.lastTimestamp
           /\ gen'.sequenceCounter = gen.sequenceCounter + 1
           /\ (prevMax'.some => BigGT(raw'.val.num, prevMax'.v))]_vars

\* the third of the readings t, t, t - 1 gave the third identifier of tick t
C13_Witness ==
    /\ pc = "idle"
    /\ raw.status = "returned"
    /\ now = BigAdd(gen.lastTimestamp, BigOfInt(-1))
    /\ BigLE(Zero, now)
    /\ TimeOf(raw.val.num, gen) = gen.lastTimestamp
    /\ SequenceOf(raw.val.num, gen) = 2
    /\ gen.generatedCount = 3
    /\ gen.overflowCount = 0

\* the reading at the start of a call is neither before the epoch nor past
\* max_time
InRange(g, reading) == BigLE(Zero, reading) /\ BigLE(reading, MaxTimestamp(g))

\* the call returned the identifier of tick time and sequence seq
ReturnedId(out, g, time, seq) ==
    /\ out.status = "returned"
    /\ TimeOf(out.val.num, g) = time
    /\ SequenceOf(out.val.num, g) = seq

\* C14: on a tick T greater than last_time the generator returns the
\* identifier of T with sequence 0; each further call reading T returns
\* sequence + 1 up to 2^b - 1; the call after that returns nothing while the
\* clock reads <= T, and returns sequence 0 with a time component greater
\* than T when the clock reads more
C14_TickSequence ==
    [][/\ (pc = "idle" /\ InRange(gen, now') /\ BigGT(now', gen.lastTimestamp))
            => /\ pc' = "idle"
               /\ ReturnedId(raw', gen, now', 0)
               /\ gen'.lastTimestamp = now'
               /\ gen'.sequenceCounter = 0
       /\ (pc = "idle" /\ InRange(gen, now') /\ now' = gen.lastTimestamp
                /\ gen.sequenceCounter < gen.maxSequence)
            => /\ pc' = "idle"
               /\ ReturnedId(raw', gen, now', gen.sequenceCounter + 1)
               /\ gen.sequenceCounter + 1 <= 2^gen.config.sequenceBits - 1
               /\ gen'.lastTimestamp = now'
               /\ gen'.sequenceCounter = gen.sequenceCounter + 1
       /\ (pc = "idle" /\ InRange(gen, now') /\ now' = gen.lastTimestamp
                /\ gen.sequenceCounter = gen.maxSequence)
            => /\ pc' = "waitSameTick"
               /\ raw' = NoOutcome
               /\ gen'.lastTimestamp = now'
               /\ gen'.generatedCount = gen.generatedCount
               /\ gen'.overflowCount = gen.overflowCount + 1
       /\ (pc = "waitSameTick" /\ BigLE(polled', gen.lastTimestamp))
            => /\ pc' = "waitSameTick"
               /\ raw' = NoOutcome
               /\ gen' = gen
       /\ (pc = "waitSameTick" /\ BigGT(polled', gen.lastTimestamp))
            => /\ pc' = "idle"
               /\ ReturnedId(raw', gen, polled', 0)
               /\ gen'.lastTimestamp = polled'
               /\ gen'.sequenceCounter = 0
               /\ gen'.overflowCount = gen.overflowCount]_vars

\* 2^b identifiers were returned on one tick T > 0, and the call after them
\* read T again before it returned on a later reading
C14_Witness ==
    /\ pc = "idle"
    /\ raw.status = "returned"
    /\ BigGT(now, Zero)
    /\ BigGT(polled, now)
    /\ gen.lastTimestamp = polled
    /\ gen.sequenceCounter = 0
    /\ gen.overflowCount = 1
    /\ gen.generatedCount = 2^gen.config.sequenceBits + 1
    /\ prevMax = Some(Pack(now, [gen EXCEPT !.sequenceCounter = gen.maxSequence]))

\* C15: a generateRaw call in the overflow wait either keeps waiting or
\* returns an identifier, never an error; it keeps waiting on every reading
\* <= last_time, and once the clock reports more than last_time it returns
\* an identifier
C15_WaitResolves ==
    /\ [][(pc # "idle")
            => /\ raw'.status # "threw"
               /\ BigLE(polled', gen.lastTimestamp)
                    => (pc' = pc /\ raw' = NoOutcome /\ gen' = gen)
               /\ BigGT(polled', gen.lastTimestamp)
                    => (pc' = "idle" /\ raw'.status = "returned")]_vars
    /\ (pc # "idle" /\ CanAdvance) ~> (pc = "idle" /\ raw.status = "returned")

\* a call that waited in the backward-clock branch has returned
C15_Witness ==
    /\ pc = "idle"
    /\ raw.status = "returned"
    /\ gen.overflowCount >= 1
    /\ prevMax.some
    /\ BigLT(now, TimeOf(prevMax.v, gen))
    /\ BigGT(polled, TimeOf(prevMax.v, gen))
    /\ gen.lastTimestamp = polled

\* C16: a call in the overflow wait, entered from either branch, returns as
\* soon as the clock reads one tick more than the reading taken at the start
\* of the call
C16_ResolvesWithinOneTick ==
    [][(pc # "idle" /\ polled' = BigAdd(now, BigOfInt(1)))
        => (pc' = "idle" /\ raw'.status = "returned")]_vars

\* C16, amended: a call in the overflow wait returns as soon as the clock
\* reads more than last_time. From the same-tick branch last_time is the
\* reading at the start of the call, so the next tick ends the wait; from
\* the backward-clock branch last_time is later than that reading, and the
\* call keeps waiting on every reading up to last_time
C16_ResolvesPastLastTime ==
    [][/\ (pc # "idle" /\ BigGT(polled', gen.lastTimestamp))
            => (pc' = "idle" /\ raw'.status = "returned")
       /\ (pc = "waitSameTick" /\ polled' = BigAdd(now, BigOfInt(1)))
            => (pc' = "idle" /\ raw'.status = "returned")
       /\ (pc = "waitBackwards" /\ BigLE(polled', gen.lastTimestamp))
            => (pc' = "waitBackwards" /\ raw' = NoOutcome)
       /\ (pc' = "waitSameTick") => (gen'.lastTimestamp = now')
       /\ (pc' = "waitBackwards") => BigLT(now', gen'.lastTimestamp)]_vars

\* a call that entered the wait from the backward-clock branch is still
\* waiting after the clock read one tick more than at its start
C16_Witness ==
    /\ pc = "waitBackwards"
    /\ raw = NoOutcome
    /\ polled = BigAdd(now, BigOfInt(1))
    /\ BigLE(polled, gen.lastTimestamp)

\* C17: after a generateRaw call that failed with TimestampRangeError, the
\* next call on the same generator whose reading is in range does not fail,
\* and the value it returns is greater than every identifier returned
\* before the failure
C17_FailureEndsOnlyThatCall ==
    (prevThrew /\ InRange(gen, now))
        => /\ raw.status # "threw"
           /\ (raw.status = "returned" /\ prevMax.some)
                => BigGT(raw.val.num, prevMax.v)

\* identifiers were returned, a call failed, and the call after it returned
\* one more on a reading earlier than last_time
C17_Witness ==
    /\ prevThrew
    /\ pc = "idle"
    /\ raw.status = "returned"
    /\ prevMax.some
    /\ BigLT(now, gen.lastTimestamp)
    /\ gen.sequenceCounter >= 1

----------------------------------------------------------------------------
(* Construction *)

\* C18: a construction given a sequenceBits that is not an integer from 1
\* to 16 fails with InvalidConfigError and yields no generator; one given an
\* integer from 1 to 16 yields a generator with that width and
\* maxSequence = 2^sequenceBits - 1
C18_SequenceBitsValidated ==
    (built.route # "none" /\ built.sequenceBits.has)
        => LET bits == built.sequenceBits.val
           IN  IF IsInteger(bits) /\ BigLE(BigOfInt(1), bits.num)
                    /\ BigLE(bits.num, BigOfInt(16))
               THEN /\ built.out.status = "returned"
                    /\ built.out.sequenceBits = bits
                    /\ built.out.maxSequence = Num(BigOfInt((2^bits.num.lo) - 1))
               ELSE /\ built.out.status = "threw"
                    /\ built.out.err = "InvalidConfigError"

----------------------------------------------------------------------------
(* Order of the texts *)

RECURSIVE StringLess(_, _)
\* a < b for two strings: the order of their UTF-16 code units
StringLess(a, b) ==
    IF b = <<>> THEN FALSE
    ELSE IF a = <<>> THEN TRUE
    ELSE IF Head(a) # Head(b) THEN Head(a) < Head(b)
    ELSE StringLess(Tail(a), Tail(b))

\* C19: for packed identifiers a < b within 48 bits, the text of a is less
\* than the text of b as a string
C19_TextOrder ==
    (codec.fn = "encodeBase64URL48" /\ codec.out.status = "returned")
        => \A a \in NumberSamples :
            (InRange48(a) /\ BigLT(a, codec.arg.num))
                => StringLess(EncodeBase64URL48(a).val.chars, codec.out.val.chars)

----------------------------------------------------------------------------
(* Dates *)

\* C20: timestampToDate applied to the text a generator of any sequence
\* width returned gives the instant of the identifier's time component plus
\* the epoch
C20_DateOfText ==
    (/\ codec.fn = "timestampToDate"
     /\ raw.status = "returned"
     /\ outcome.status = "returned"
     /\ codec.arg = outcome.val)
        => codec.out = Returned(DateOf(BigAdd(TimeOf(raw.val.num, gen), EPOCH_OFFSET)))

----------------------------------------------------------------------------
(* generateRawTimestamp *)

\* C21: a value generateRawTimestamp returns is the time component of the
\* identifier that call took from the generator plus the epoch offset, and
\* is not below any value generateRawTimestamp returned before on that
\* generator
C21_StampNonDecreasing ==
    (call.fn = "generateRawTimestamp" /\ outcome.status = "returned")
        => /\ raw.status = "returned"
           /\ outcome.val = Num(BigAdd(TimeOf(raw.val.num, gen), EPOCH_OFFSET))
           /\ (prevStamp.some => BigLE(prevStamp.v, outcome.val.num))

\* after the clock went backwards generateRawTimestamp returned the same
\* value as before
C21_Witness ==
    /\ call.fn = "generateRawTimestamp"
    /\ outcome.status = "returned"
    /\ prevStamp = Some(outcome.val.num)
    /\ BigLT(now, gen.lastTimestamp)
    /\ BigGT(gen.lastTimestamp, Zero)

\* C22: every value generateRawTimestamp returns is in [0, 2^48 - 1]
C22_StampInRange ==
    (call.fn = "generateRawTimestamp" /\ outcome.status = "returned")
        => InRange48(outcome.val.num)

----------------------------------------------------------------------------
(* Calls that only read *)

GeneratingCalls ==
    {"generateRaw", "generateTimestamp48", "generateRawTimestamp",
     "GT48.generate", "GT48.generateRaw"}

\* no field of generator g is lower in h
NothingReset(g, h) ==
    /\ BigLE(g.lastTimestamp, h.lastTimestamp)
    /\ g.generatedCount <= h.generatedCount
    /\ g.overflowCount <= h.overflowCount

\* the statistics object holds the fields of generator g
SnapshotOf(g) ==
    /\ stats.val.lastTimestamp = g.lastTimestamp
    /\ stats.val.sequenceCounter = g.sequenceCounter
    /\ stats.val.generatedCount = g.generatedCount
    /\ stats.val.overflowCount = g.overflowCount

C24_InstancesIndependent ==
    /\ [][/\ (inst' # inst) => (gen' = gen /\ target' = "instance")
          /\ (gen' # gen) => (inst' = inst /\ target' = "default")
          /\ (pc = "idle" /\ stats' = NoStats /\ call'.generator = "undefined")
                => /\ inst' = inst
                   /\ target' = "default"
                   /\ gen' = GenerateRawEnter(gen, now').gen
          /\ (pc = "idle" /\ stats' = NoStats /\ call'.generator = "instance")
                => /\ gen' = gen
                   /\ target' = "instance"
                   /\ inst' = GenerateRawEnter(inst, now').gen
         ]_vars
    /\ [](stats.fn = "getTimestampStats"
            => stats.val = GetTimestampStats(IF stats.generator = "undefined"
                                             THEN gen ELSE inst))

\* both generators have issued identifiers, on different ticks, and the
\* instance's statistics have been read
C24_Witness ==
    /\ gen.generatedCount >= 1
    /\ inst.generatedCount >= 1
    /\ gen.lastTimestamp # inst.lastTimestamp
    /\ stats.fn = "getTimestampStats"
    /\ stats.generator = "instance"

\* C25: callers that take turns on the shared default generator, every
\* invocation of generateTimestamp48 ending before the next one starts, in
\* whatever order: an identifier returned differs from all identifiers
\* returned before, to any caller, and its packed integer is greater than
\* that of the identifier the same caller obtained last.
C25_CallersDistinctIncreasing ==
    (call.fn = "generateTimestamp48" /\ outcome.status = "returned")
        => /\ outcome.val \notin issued
           /\ lastBy[caller].some => BigLT(lastBy[caller].v, raw.val.num)

\* a caller obtained an identifier after its own earlier one, another caller
\* having obtained one in between, and one of the invocations waited for the
\* next tick
C25_Witness ==
    /\ call.fn = "generateTimestamp48"
    /\ outcome.status = "returned"
    /\ lastBy[caller].some
    /\ \E c \in 1..MaxCallers :
            /\ c # caller
            /\ lastBy[c].some
            /\ BigLT(lastBy[caller].v, lastBy[c].v)
    /\ gen.overflowCount >= 1

\* C26: decodeTimestamp48 returns 0 for "AAAAAAAA" and 2^48 - 1 for
\* "________"; every value it returns lies between the two, and no other
\* text decodes to either of them.
C26_DecodeBoundaries ==
    LET allFirst == [i \in 1..8 |-> BASE64URL_CHARS[1]]
        allLast == [i \in 1..8 |-> BASE64URL_CHARS[64]]
    IN  codec.fn = "decodeTimestamp48"
            => /\ codec.arg = Str(allFirst) => codec.out = Returned(Num(Zero))
               /\ codec.arg = Str(allLast) => codec.out = Returned(Num(MAX_48_BIT))
               /\ codec.out.status = "returned"
                    => /\ BigLE(Zero, codec.out.val.num)
                       /\ BigLE(codec.out.val.num, MAX_48_BIT)
                       /\ codec.out.val.num = Zero => codec.arg = Str(allFirst)
                       /\ codec.out.val.num = MAX_48_BIT => codec.arg = Str(allLast)

\* "________" has been decoded
C26_Witness ==
    /\ codec.fn = "decodeTimestamp48"
    /\ codec.src = Undefined
    /\ codec.arg = Str([i \in 1..8 |-> 95])
    /\ codec.out.status = "returned"

\* C27: instance.generate() without an argument returns the identifier in
\* the format configured for the instance: the 12-digit hexadecimal text for
\* format 'hex', the 8-character text for 'base64url'.
C27_GenerateInConfiguredFormat ==
    (call.fn = "GT48.generate" /\ call.format = "undefined"
        /\ pc = "idle" /\ raw.status = "returned")
        => outcome = IF inst.config.format = "hex"
                     THEN Returned(Str(PadStart(ToString16(raw.val.num), 12)))
                     ELSE EncodeBase64URL48(raw.val.num)

\* C28: generatedCount is the number of generateRaw calls that have returned
\* a value (a call that threw is not counted), overflowCount is the number of
\* calls that found the sequence exhausted, counted once per call however
\* long the call waits, and neither counter ever decreases.
C28_CountersMatchCalls ==
    /\ [](/\ gen.generatedCount = tally.returned
          /\ gen.overflowCount = tally.exhausted)
    /\ [][/\ gen'.generatedCount >= gen.generatedCount
          /\ gen'.overflowCount >= gen.overflowCount]_vars

\* a call has thrown after two calls returned values, one of them after
\* waiting out an exhausted sequence
C28_Witness ==
    /\ pc = "idle"
    /\ raw.status = "threw"
    /\ gen.generatedCount >= 2
    /\ gen.overflowCount >= 1

\* C29: whenever no generateRaw call is in progress (after construction,
\* after a return, after a throw) sequenceCounter is in
\* [0, 2^sequenceBits - 1], and lastTimestamp never decreases.
C29_StateBetweenCalls ==
    /\ [](pc = "idle" => gen.sequenceCounter \in 0..((2^gen.config.sequenceBits) - 1))
    /\ [][BigLE(gen.lastTimestamp, gen'.lastTimestamp)]_vars

\* a call that read the clock behind lastTimestamp has returned the last
\* sequence value of the tick, after an earlier call had waited for a new tick
C29_Witness ==
    /\ pc = "idle"
    /\ raw.status = "returned"
    /\ BigLT(now, gen.lastTimestamp)
    /\ gen.sequenceCounter = gen.maxSequence
    /\ gen.overflowCount >= 1

\* C30: a value generateRaw returns equals
\* lastTimestamp * 2^sequenceBits + sequenceCounter for the lastTimestamp and
\* sequenceCounter that getStats reports right after the call, whichever
\* return statement produced it.
C30_ValueIsPackedState ==
    (pc = "idle" /\ raw.status = "returned")
        => LET reported == GetStats(gen)
           IN  raw.val.num
                 = BigAdd(BigMulPow2(reported.lastTimestamp, reported.config.sequenceBits),
                          BigOfInt(reported.sequenceCounter))

\* a call has returned from a wait loop, on a reading later than the one it
\* started with
C30_Witness ==
    /\ pc = "idle"
    /\ raw.status = "returned"
    /\ polled # now
    /\ gen.lastTimestamp = polled
    /\ gen.sequenceCounter = 0

C32_FirstIdentifier ==
    (pc = "idle" /\ raw.status = "returned" /\ tally.returned = 1)
        => ReturnedId(raw, gen, now, 0)

\* C33: the time component of a value generateRaw returns is one of the
\* readings the clock has given the instance up to the end of the call, it
\* is not below the reading at the start of the call, and so it is never
\* ahead of all readings the instance has seen.
C33_TimeIsAReading ==
    (pc = "idle" /\ raw.status = "returned")
        => LET time == TimeOf(raw.val.num, gen)
           IN  /\ time \in seen
               /\ BigLE(now, time)
               /\ \E reading \in seen : BigLE(time, reading)

\* the clock had gone back at the start of the call, and the call returned
\* the time component of an earlier reading
C33_Witness ==
    /\ pc = "idle"
    /\ raw.status = "returned"
    /\ BigLT(now, TimeOf(raw.val.num, gen))
    /\ polled = now
    /\ Cardinality(seen) >= 3

\* the fields of a generator that a consumed identifier changes
Consumption(g) ==
    <<g.lastTimestamp, g.sequenceCounter, g.generatedCount, g.overflowCount>>

\* C34: a generateTimestamp48 call that throws InvalidConfigError (options
\* not an object, generator not a TimestampGenerator, unsupported format)
\* consumes no identifier: lastTimestamp, sequenceCounter, generatedCount and
\* overflowCount of every generator are what they were before the call.
C34_ConfigErrorConsumesNothing ==
    [][(/\ pc = "idle"
        /\ pc' = "idle"
        /\ probe'.fn = "generateTimestamp48"
        /\ outcome' = Threw("InvalidConfigError"))
            => /\ Consumption(gen') = Consumption(gen)
               /\ Consumption(inst') = Consumption(inst)]_vars

\* C35: generateTimestamp48, getTimestampStats and createGenerator take null
\* for their argument as they take an empty object (default generator,
\* default configuration); an argument that is neither an object nor null is
\* rejected with InvalidConfigError, and no other argument is rejected for
\* what kind of value it is.
C35_NullAsEmptyObject ==
    [][/\ (pc = "idle" /\ probe'.options.kind = "null")
            => CASE probe'.fn = "generateTimestamp48" ->
                        LET res == GenerateTimestamp48Call(EmptyObject, gen, inst, now')
                        IN  /\ gen' = res.gen
                            /\ inst' = res.inst
                            /\ pc' = res.pc
                            /\ outcome' = res.outcome
                 [] probe'.fn = "getTimestampStats" ->
                        /\ outcome' = GetTimestampStatsCall(EmptyObject).outcome
                        /\ stats' = GetTimestampStatsCall(EmptyObject).stats
                 [] probe'.fn = "createGenerator" ->
                        built'.out = CreateGeneratorCall(EmptyObject)
       /\ (pc = "idle" /\ probe'.options.kind \notin {"undefined", "null", "object"})
            => outcome' = Threw("InvalidConfigError")
      ]_vars

====
